---- MODULE Spec2Model ----
(***************************************************************************)
(* STRIDE threat analysis: CategoryClassifier (src/src/stride/categories.py) *)
(* and StrideEngine (src/src/stride/engine.py) over the knowledge base      *)
(* (src/src/stride/knowledge_base.py).                                      *)
(*                                                                          *)
(* A Python str is a sequence of one-character strings, so that lower(),    *)
(* strip() and the `in` substring test are computed, not assumed.           *)
(* A Python dict is a sequence of <<key, value>> pairs with distinct keys,  *)
(* in insertion order.  A float score is an integer number of tenths        *)
(* (round(x, 1) yields a multiple of 0.1): 75.0 is 750.                     *)
(* Accented letters of the knowledge-base texts are written without accent. *)
(*                                                                          *)
(* Also the legacy engine (src/src/stride_engine.py), whose score is an     *)
(* exact fraction and whose reported score is a number of hundredths, and   *)
(* DetectionResult (src/src/detection/detector.py).                         *)
(***************************************************************************)
EXTENDS Integers, Sequences, FiniteSets, TLC

VARIABLES
    _component_map,   \* CategoryClassifier._component_map of the engine's classifier
    constructed_with, \* the custom_mappings that classifier was constructed with
    call,             \* the call in progress: [op, arg]
    ret,              \* what the call returned or raised: [kind, val]
    module_component_map, \* the module-level dict _COMPONENT_MAP of categories.py
    category_profiles,    \* the class attribute StrideEngine._CATEGORY_PROFILES
    knowledge_base,       \* the module-level threat lists of knowledge_base.py, by name
    seen,             \* an earlier analyze_architecture call of this engine: its input and report
    threads,          \* the calls that run concurrently on the engine, with their local variables
    held              \* the analyses a caller keeps and the list objects their risks refer to

\* the data shared by every classifier and engine of the process
shared == <<module_component_map, category_profiles, knowledge_base>>

vars == <<_component_map, constructed_with, call, ret, shared, seen, threads, held>>

(* ------------------------------ bounds -------------------------------- *)

\* longest generated component name
MaxLen == 3

\* longest component list given to analyze_architecture
MaxComponents == 3

(* --------------------------- str operations --------------------------- *)

\* the characters of the model for which str.isspace() is true
Whitespace == {" ", "\t", "\n"}

\* str.lower() on the ASCII letters
AsciiLower ==
       ("A" :> "a") @@ ("B" :> "b") @@ ("C" :> "c") @@ ("D" :> "d") @@ ("E" :> "e") @@ ("F" :> "f")
    @@ ("G" :> "g") @@ ("H" :> "h") @@ ("I" :> "i") @@ ("J" :> "j") @@ ("K" :> "k") @@ ("L" :> "l")
    @@ ("M" :> "m") @@ ("N" :> "n") @@ ("O" :> "o") @@ ("P" :> "p") @@ ("Q" :> "q") @@ ("R" :> "r")
    @@ ("S" :> "s") @@ ("T" :> "t") @@ ("U" :> "u") @@ ("V" :> "v") @@ ("W" :> "w") @@ ("X" :> "x")
    @@ ("Y" :> "y") @@ ("Z" :> "z")

lowerChar(c) == IF c \in DOMAIN AsciiLower THEN AsciiLower[c] ELSE c

\* s.lower()
lower(s) == [i \in 1..Len(s) |-> lowerChar(s[i])]

\* s.strip(): s without its leading and trailing whitespace
strip(s) ==
    LET keep == {i \in 1..Len(s) : s[i] \notin Whitespace}
    IN  IF keep = {} THEN <<>>
        ELSE SubSeq(s, CHOOSE i \in keep : \A j \in keep : i <= j,
                       CHOOSE i \in keep : \A j \in keep : i >= j)

\* sub in s
Contains(sub, s) ==
    \E i \in 0..(Len(s) - Len(sub)) : \A j \in 1..Len(sub) : s[i + j] = sub[j]

\* IsBlank without the strip(): only the empty string is blank
IsBlank_empty_only(s) == Len(s) = 0

\* not s or not s.strip()
IsBlank(s) == Len(s) = 0 \/ Len(strip(s)) = 0

(* --------------------------- dict operations -------------------------- *)

\* key in d
dict_contains(d, key) == \E i \in 1..Len(d) : d[i][1] = key

\* d[key], for key in d
dict_get(d, key) == d[CHOOSE i \in 1..Len(d) : d[i][1] = key][2]

\* dict_set as setdefault: an existing key keeps its old value
dict_set_keep_existing(d, key, value) ==
    IF dict_contains(d, key) THEN d ELSE Append(d, <<key, value>>)

\* d[key] = value: an existing key keeps its position, a new key goes last
dict_set(d, key, value) ==
    IF dict_contains(d, key)
    THEN [i \in 1..Len(d) |-> IF d[i][1] = key THEN <<key, value>> ELSE d[i]]
    ELSE Append(d, <<key, value>>)

(* ------------------------------ categories ---------------------------- *)

\* the values of the enumeration ComponentCategory
ComponentCategory ==
    {"compute", "database", "storage", "network", "security", "api_gateway",
     "messaging", "monitoring", "identity", "ml_ai", "devops", "serverless",
     "analytics", "groups", "other"}

\* the module-level seeded table, in source order
_COMPONENT_MAP ==
    <<
      <<<<"E", "C", "2">>, "compute">>,
      <<<<"E", "C", "S">>, "compute">>,
      <<<<"E", "K", "S">>, "compute">>,
      <<<<"F", "a", "r", "g", "a", "t", "e">>, "compute">>,
      <<<<"L", "a", "m", "b", "d", "a">>, "compute">>,
      <<<<"L", "i", "g", "h", "t", "s", "a", "i", "l">>, "compute">>,
      <<<<"B", "a", "t", "c", "h">>, "compute">>,
      <<<<"B", "e", "a", "n", "s", "t", "a", "l", "k">>, "compute">>,
      <<<<"V", "M">>, "compute">>,
      <<<<"A", "p", "p", " ", "S", "e", "r", "v", "i", "c", "e">>, "compute">>,
      <<<<"C", "o", "n", "t", "a", "i", "n", "e", "r">>, "compute">>,
      <<<<"C", "o", "m", "p", "u", "t", "e", " ", "E", "n", "g", "i", "n", "e">>, "compute">>,
      <<<<"G", "K", "E">>, "compute">>,
      <<<<"C", "l", "o", "u", "d", " ", "R", "u", "n">>, "compute">>,
      <<<<"S", "E", "I">>, "compute">>,
      <<<<"S", "I", "P">>, "compute">>,
      <<<<"S", "e", "r", "v", "e", "r">>, "compute">>,
      <<<<"V", "m", " ", "S", "c", "a", "l", "e", "s", "e", "t">>, "compute">>,
      <<<<"V", "i", "r", "t", "u", "a", "l", " ", "M", "a", "c", "h", "i", "n", "e">>, "compute">>,
      <<<<"E", "l", "a", "s", "t", "i", "c", " ", "C", "o", "n", "t", "a", "i", "n", "e", "r", " ", "S", "e", "r", "v", "i", "c", "e">>, "compute">>,
      <<<<"R", "D", "S">>, "database">>,
      <<<<"D", "y", "n", "a", "m", "o", "D", "B">>, "database">>,
      <<<<"A", "u", "r", "o", "r", "a">>, "database">>,
      <<<<"E", "l", "a", "s", "t", "i", "C", "a", "c", "h", "e">>, "database">>,
      <<<<"R", "e", "d", "i", "s">>, "database">>,
      <<<<"R", "e", "d", "s", "h", "i", "f", "t">>, "database">>,
      <<<<"N", "e", "p", "t", "u", "n", "e">>, "database">>,
      <<<<"D", "o", "c", "u", "m", "e", "n", "t", "D", "B">>, "database">>,
      <<<<"C", "o", "s", "m", "o", "s", " ", "D", "B">>, "database">>,
      <<<<"S", "Q", "L", " ", "D", "a", "t", "a", "b", "a", "s", "e">>, "database">>,
      <<<<"C", "l", "o", "u", "d", " ", "S", "Q", "L">>, "database">>,
      <<<<"F", "i", "r", "e", "s", "t", "o", "r", "e">>, "database">>,
      <<<<"B", "i", "g", "t", "a", "b", "l", "e">>, "database">>,
      <<<<"M", "y", "S", "Q", "L">>, "database">>,
      <<<<"P", "o", "s", "t", "g", "r", "e", "S", "Q", "L">>, "database">>,
      <<<<"T", "a", "b", "l", "e">>, "database">>,
      <<<<"D", "B">>, "database">>,
      <<<<"O", "r", "a", "c", "l", "e", " ", "D", "B">>, "database">>,
      <<<<"M", "o", "n", "g", "o", " ", "D", "B">>, "database">>,
      <<<<"M", "e", "m", "c", "a", "c", "h", "e", "d">>, "database">>,
      <<<<"S", "3">>, "storage">>,
      <<<<"E", "B", "S">>, "storage">>,
      <<<<"E", "F", "S">>, "storage">>,
      <<<<"G", "l", "a", "c", "i", "e", "r">>, "storage">>,
      <<<<"B", "l", "o", "b", " ", "S", "t", "o", "r", "a", "g", "e">>, "storage">>,
      <<<<"C", "l", "o", "u", "d", " ", "S", "t", "o", "r", "a", "g", "e">>, "storage">>,
      <<<<"F", "S", "x">>, "storage">>,
      <<<<"S", "t", "o", "r", "a", "g", "e", " ", "G", "a", "t", "e", "w", "a", "y">>, "storage">>,
      <<<<"F", "i", "l", "e", " ", "s", "h", "a", "r", "e">>, "storage">>,
      <<<<"S", "n", "o", "w", "b", "a", "l", "l">>, "storage">>,
      <<<<"B", "a", "c", "k", "u", "p">>, "storage">>,
      <<<<"D", "a", "t", "a", "S", "y", "n", "c">>, "storage">>,
      <<<<"V", "P", "C">>, "network">>,
      <<<<"V", "P", "C", " ", "R", "o", "u", "t", "e", "r">>, "network">>,
      <<<<"I", "n", "t", "e", "r", "n", "e", "t", " ", "G", "a", "t", "e", "w", "a", "y">>, "network">>,
      <<<<"N", "A", "T", " ", "G", "a", "t", "e", "w", "a", "y">>, "network">>,
      <<<<"T", "r", "a", "n", "s", "i", "t", " ", "G", "a", "t", "e", "w", "a", "y">>, "network">>,
      <<<<"D", "i", "r", "e", "c", "t", " ", "C", "o", "n", "n", "e", "c", "t">>, "network">>,
      <<<<"P", "r", "i", "v", "a", "t", "e", " ", "L", "i", "n", "k">>, "network">>,
      <<<<"V", "-", "n", "e", "t">>, "network">>,
      <<<<"P", "r", "i", "v", "a", "t", "e", " ", "S", "u", "b", "n", "e", "t">>, "network">>,
      <<<<"P", "u", "b", "l", "i", "c", " ", "S", "u", "b", "n", "e", "t">>, "network">>,
      <<<<"E", "n", "d", "p", "o", "i", "n", "t">>, "network">>,
      <<<<"C", "u", "s", "t", "o", "m", "e", "r", " ", "G", "a", "t", "e", "w", "a", "y">>, "network">>,
      <<<<"V", "P", " ", "G", "a", "t", "e", "w", "a", "y">>, "network">>,
      <<<<"C", "l", "o", "u", "d", "F", "r", "o", "n", "t">>, "network">>,
      <<<<"R", "o", "u", "t", "e", " ", "5", "3">>, "network">>,
      <<<<"R", "o", "u", "t", "e", "5", "3">>, "network">>,
      <<<<"C", "l", "o", "u", "d", " ", "M", "a", "p">>, "network">>,
      <<<<"E", "L", "B">>, "network">>,
      <<<<"A", "L", "B">>, "network">>,
      <<<<"N", "L", "B">>, "network">>,
      <<<<"L", "o", "a", "d", " ", "B", "a", "l", "a", "n", "c", "e", "r">>, "network">>,
      <<<<"C", "D", "N">>, "network">>,
      <<<<"D", "i", "s", "t", "r", "i", "b", "u", "t", "i", "o", "n">>, "network">>,
      <<<<"E", "d", "g", "e", " ", "L", "o", "c", "a", "t", "i", "o", "n">>, "network">>,
      <<<<"W", "A", "F">>, "security">>,
      <<<<"S", "h", "i", "e", "l", "d">>, "security">>,
      <<<<"G", "u", "a", "r", "d", "D", "u", "t", "y">>, "security">>,
      <<<<"K", "M", "S">>, "security">>,
      <<<<"K", "e", "y", " ", "M", "a", "n", "a", "g", "e", "m", "e", "n", "t", " ", "S", "e", "r", "v", "i", "c", "e">>, "security">>,
      <<<<"C", "l", "o", "u", "d", "H", "S", "M">>, "security">>,
      <<<<"S", "e", "c", "r", "e", "t", "s", " ", "M", "a", "n", "a", "g", "e", "r">>, "security">>,
      <<<<"S", "e", "c", "u", "r", "i", "t", "y", " ", "H", "u", "b">>, "security">>,
      <<<<"C", "e", "r", "t", "i", "f", "i", "c", "a", "t", "e">>, "security">>,
      <<<<"C", "e", "r", "t", "i", "f", "i", "c", "a", "t", "e", " ", "M", "a", "n", "a", "g", "e", "r">>, "security">>,
      <<<<"F", "i", "r", "e", "w", "a", "l", "l">>, "security">>,
      <<<<"N", "e", "t", "w", "o", "r", "k", " ", "F", "i", "r", "e", "w", "a", "l", "l">>, "security">>,
      <<<<"F", "i", "r", "e", "w", "a", "l", "l", " ", "M", "a", "n", "a", "g", "e", "r">>, "security">>,
      <<<<"I", "n", "s", "p", "e", "c", "t", "o", "r", " ", "A", "g", "e", "n", "t">>, "security">>,
      <<<<"M", "a", "c", "i", "e">>, "security">>,
      <<<<"D", "e", "t", "e", "c", "t", "i", "v", "e">>, "security">>,
      <<<<"K", "e", "y", " ", "v", "a", "u", "l", "t">>, "security">>,
      <<<<"S", "e", "c", "u", "r", "i", "t", "y", " ", "G", "r", "o", "u", "p">>, "security">>,
      <<<<"A", "P", "I", " ", "G", "a", "t", "e", "w", "a", "y">>, "api_gateway">>,
      <<<<"A", "P", "I", "-", "G", "a", "t", "e", "w", "a", "y">>, "api_gateway">>,
      <<<<"A", "p", "p", " ", "g", "a", "t", "e", "w", "a", "y">>, "api_gateway">>,
      <<<<"A", "p", "p", "S", "y", "n", "c">>, "api_gateway">>,
      <<<<"A", "p", "p", "s", "y", "n", "c">>, "api_gateway">>,
      <<<<"A", "p", "i", "g", "e", "e">>, "api_gateway">>,
      <<<<"A", "P", "I", " ", "M", "a", "n", "a", "g", "e", "m", "e", "n", "t">>, "api_gateway">>,
      <<<<"S", "Q", "S">>, "messaging">>,
      <<<<"S", "N", "S">>, "messaging">>,
      <<<<"S", "E", "S">>, "messaging">>,
      <<<<"E", "v", "e", "n", "t", "B", "r", "i", "d", "g", "e">>, "messaging">>,
      <<<<"E", "v", "e", "n", "t", " ", "B", "u", "s">>, "messaging">>,
      <<<<"K", "i", "n", "e", "s", "i", "s">>, "messaging">>,
      <<<<"K", "i", "n", "e", "s", "i", "s", " ", "D", "a", "t", "a", " ", "S", "t", "r", "e", "a", "m", "s">>, "messaging">>,
      <<<<"S", "e", "r", "v", "i", "c", "e", " ", "B", "u", "s">>, "messaging">>,
      <<<<"P", "u", "b", "/", "S", "u", "b">>, "messaging">>,
      <<<<"M", "Q">>, "messaging">>,
      <<<<"C", "l", "o", "u", "d", "W", "a", "t", "c", "h">>, "monitoring">>,
      <<<<"C", "l", "o", "u", "d", " ", "W", "a", "t", "c", "h">>, "monitoring">>,
      <<<<"C", "l", "o", "u", "d", "W", "a", "t", "c", "h", " ", "A", "l", "a", "r", "m">>, "monitoring">>,
      <<<<"C", "l", "o", "u", "d", "T", "r", "a", "i", "l">>, "monitoring">>,
      <<<<"C", "l", "o", "u", "d", " ", "T", "r", "a", "i", "l">>, "monitoring">>,
      <<<<"X", "-", "R", "a", "y">>, "monitoring">>,
      <<<<"C", "l", "o", "u", "d", " ", "M", "o", "n", "i", "t", "o", "r", "i", "n", "g">>, "monitoring">>,
      <<<<"A", "z", "u", "r", "e", " ", "m", "o", "n", "i", "t", "o", "r">>, "monitoring">>,
      <<<<"G", "r", "a", "f", "a", "n", "a">>, "monitoring">>,
      <<<<"P", "r", "o", "m", "e", "t", "h", "e", "u", "s">>, "monitoring">>,
      <<<<"F", "l", "o", "w", " ", "l", "o", "g", "s">>, "monitoring">>,
      <<<<"C", "o", "n", "f", "i", "g">>, "monitoring">>,
      <<<<"T", "r", "u", "s", "t", "e", "d", " ", "A", "d", "v", "i", "s", "o", "r">>, "monitoring">>,
      <<<<"I", "A", "M">>, "identity">>,
      <<<<"I", "A", "M", " ", "R", "o", "l", "e">>, "identity">>,
      <<<<"C", "o", "g", "n", "i", "t", "o">>, "identity">>,
      <<<<"A", "A", "D">>, "identity">>,
      <<<<"A", "c", "t", "i", "v", "e", " ", "D", "i", "r", "e", "c", "t", "o", "r", "y", " ", "S", "e", "r", "v", "i", "c", "e">>, "identity">>,
      <<<<"S", "i", "g", "n", "-", "O", "n">>, "identity">>,
      <<<<"U", "s", "e", "r", "s">>, "identity">>,
      <<<<"C", "l", "i", "e", "n", "t">>, "other">>,
      <<<<"S", "a", "g", "e", "m", "a", "k", "e", "r">>, "ml_ai">>,
      <<<<"R", "e", "k", "o", "g", "n", "i", "t", "i", "o", "n">>, "ml_ai">>,
      <<<<"C", "o", "m", "p", "r", "e", "h", "e", "n", "d">>, "ml_ai">>,
      <<<<"L", "e", "x">>, "ml_ai">>,
      <<<<"T", "e", "x", "t", "r", "a", "c", "t">>, "ml_ai">>,
      <<<<"T", "r", "a", "n", "s", "c", "r", "i", "b", "e">>, "ml_ai">>,
      <<<<"T", "r", "a", "n", "s", "l", "a", "t", "e">>, "ml_ai">>,
      <<<<"V", "e", "r", "t", "e", "x", " ", "A", "I">>, "ml_ai">>,
      <<<<"M", "a", "c", "h", "i", "n", "e", " ", "L", "e", "a", "r", "n", "i", "n", "g">>, "ml_ai">>,
      <<<<"N", "o", "t", "e", "b", "o", "o", "k">>, "ml_ai">>,
      <<<<"C", "o", "d", "e", "P", "i", "p", "e", "l", "i", "n", "e">>, "devops">>,
      <<<<"C", "o", "d", "e", "B", "u", "i", "l", "d">>, "devops">>,
      <<<<"C", "o", "d", "e", "C", "o", "m", "m", "i", "t">>, "devops">>,
      <<<<"C", "o", "d", "e", "D", "e", "p", "l", "o", "y">>, "devops">>,
      <<<<"J", "e", "n", "k", "i", "n", "s">>, "devops">>,
      <<<<"G", "i", "t", "h", "u", "b">>, "devops">>,
      <<<<"G", "i", "t">>, "devops">>,
      <<<<"D", "o", "c", "k", "e", "r", " ", "I", "m", "a", "g", "e">>, "devops">>,
      <<<<"I", "m", "a", "g", "e", " ", "B", "u", "i", "l", "d", "e", "r">>, "devops">>,
      <<<<"C", "l", "o", "u", "d", "F", "o", "r", "m", "a", "t", "i", "o", "n", " ", "S", "t", "a", "c", "k">>, "devops">>,
      <<<<"T", "e", "r", "r", "a", "f", "o", "r", "m">>, "devops">>,
      <<<<"D", "e", "p", "l", "o", "y", " ", "S", "t", "a", "g", "e">>, "devops">>,
      <<<<"B", "u", "i", "l", "d", " ", "E", "n", "v", "i", "r", "o", "n", "m", "e", "n", "t">>, "devops">>,
      <<<<"A", "m", "p", "l", "i", "f", "y">>, "serverless">>,
      <<<<"A", "p", "p", "F", "l", "o", "w">>, "serverless">>,
      <<<<"S", "t", "e", "p", " ", "F", "u", "n", "c", "t", "i", "o", "n", "s">>, "serverless">>,
      <<<<"S", "t", "e", "p", " ", "F", "u", "n", "c", "t", "i", "o", "n">>, "serverless">>,
      <<<<"A", "t", "h", "e", "n", "a">>, "analytics">>,
      <<<<"G", "l", "u", "e">>, "analytics">>,
      <<<<"B", "i", "g", "Q", "u", "e", "r", "y">>, "analytics">>,
      <<<<"E", "M", "R">>, "analytics">>,
      <<<<"g", "r", "o", "u", "p", "s">>, "groups">>,
      <<<<"A", "v", "a", "i", "l", "a", "b", "i", "l", "i", "t", "y", " ", "Z", "o", "n", "e">>, "groups">>,
      <<<<"R", "e", "g", "i", "o", "n">>, "groups">>
    >>

\* COMPUTE_THREATS with a fourth threat, above the ceiling of three
COMPUTE_THREATS_with_fourth ==
    <<
      [threat_type |-> "Spoofing", threat_label |-> "S - Falsificacao de Identidade",
       detail |-> "Instancias podem ser clonadas ou falsificadas por atacantes.",
       mitigation |-> "Habilitar IMDSv2, usar security groups restritos e IAM roles.",
       severity |-> "HIGH"],
      [threat_type |-> "Tampering", threat_label |-> "T - Adulteracao",
       detail |-> "Modificacao nao autorizada de configuracoes ou dados da instancia.",
       mitigation |-> "Habilitar CloudTrail, usar AMIs verificadas e integrity monitoring.",
       severity |-> "HIGH"],
      [threat_type |-> "Elevation of Privilege", threat_label |-> "E - Elevacao de Privilegio",
       detail |-> "Exploracao de vulnerabilidades para ganhar privilegios root.",
       mitigation |-> "Aplicar patches regularmente, usar least privilege em IAM roles.",
       severity |-> "CRITICAL"],
      [threat_type |-> "Denial of Service", threat_label |-> "D - Negacao de Servico",
       detail |-> "Esgotamento de recursos (CPU, memoria, disco).",
       mitigation |-> "Configurar Auto Scaling, limites de recursos e alarmes.",
       severity |-> "CRITICAL"]
    >>

COMPUTE_THREATS ==
    <<
      [threat_type |-> "Spoofing", threat_label |-> "S - Falsificacao de Identidade",
       detail |-> "Instancias podem ser clonadas ou falsificadas por atacantes.",
       mitigation |-> "Habilitar IMDSv2, usar security groups restritos e IAM roles.",
       severity |-> "HIGH"],
      [threat_type |-> "Tampering", threat_label |-> "T - Adulteracao",
       detail |-> "Modificacao nao autorizada de configuracoes ou dados da instancia.",
       mitigation |-> "Habilitar CloudTrail, usar AMIs verificadas e integrity monitoring.",
       severity |-> "HIGH"],
      [threat_type |-> "Elevation of Privilege", threat_label |-> "E - Elevacao de Privilegio",
       detail |-> "Exploracao de vulnerabilidades para ganhar privilegios root.",
       mitigation |-> "Aplicar patches regularmente, usar least privilege em IAM roles.",
       severity |-> "CRITICAL"]
    >>

DATABASE_THREATS ==
    <<
      [threat_type |-> "Information Disclosure", threat_label |-> "I - Vazamento de Informacoes",
       detail |-> "Dados sensiveis podem ser expostos via queries ou backups nao criptografados.",
       mitigation |-> "Habilitar encryption at-rest e in-transit, usar VPC endpoints.",
       severity |-> "CRITICAL"],
      [threat_type |-> "Tampering", threat_label |-> "T - Adulteracao",
       detail |-> "Modificacao nao autorizada de registros do banco.",
       mitigation |-> "Habilitar audit logging, usar IAM authentication e parameter groups seguros.",
       severity |-> "HIGH"],
      [threat_type |-> "Denial of Service", threat_label |-> "D - Negacao de Servico",
       detail |-> "Consultas pesadas ou connection flooding podem causar indisponibilidade.",
       mitigation |-> "Configurar connection pooling, query timeout e read replicas.",
       severity |-> "MEDIUM"]
    >>

STORAGE_THREATS ==
    <<
      [threat_type |-> "Information Disclosure", threat_label |-> "I - Vazamento de Informacoes",
       detail |-> "Buckets/blobs publicos podem expor dados sensiveis.",
       mitigation |-> "Bloquear acesso publico, habilitar encryption e bucket policies restritas.",
       severity |-> "CRITICAL"],
      [threat_type |-> "Tampering", threat_label |-> "T - Adulteracao",
       detail |-> "Objetos podem ser modificados ou deletados sem autorizacao.",
       mitigation |-> "Habilitar versioning, MFA delete e Object Lock.",
       severity |-> "HIGH"],
      [threat_type |-> "Repudiation", threat_label |-> "R - Repudio",
       detail |-> "Acoes em objetos sem trilha de auditoria.",
       mitigation |-> "Habilitar S3 access logging e CloudTrail data events.",
       severity |-> "MEDIUM"]
    >>

NETWORK_THREATS ==
    <<
      [threat_type |-> "Spoofing", threat_label |-> "S - Falsificacao de Identidade",
       detail |-> "Trafego de rede pode ser spoofed para acessar recursos internos.",
       mitigation |-> "Usar NACLs, security groups e VPN/Direct Connect para acesso.",
       severity |-> "HIGH"],
      [threat_type |-> "Information Disclosure", threat_label |-> "I - Vazamento de Informacoes",
       detail |-> "Trafego nao criptografado pode ser interceptado.",
       mitigation |-> "Usar TLS em transito, VPC Flow Logs e endpoints privados.",
       severity |-> "HIGH"],
      [threat_type |-> "Denial of Service", threat_label |-> "D - Negacao de Servico",
       detail |-> "Ataques DDoS podem tornar o servico indisponivel.",
       mitigation |-> "Usar AWS Shield, WAF e CloudFront para mitigacao de DDoS.",
       severity |-> "HIGH"]
    >>

SECURITY_THREATS ==
    <<
      [threat_type |-> "Elevation of Privilege", threat_label |-> "E - Elevacao de Privilegio",
       detail |-> "Politicas IAM permissivas podem permitir escalonamento de privilegios.",
       mitigation |-> "Aplicar least privilege, usar IAM Access Analyzer e SCPs.",
       severity |-> "CRITICAL"],
      [threat_type |-> "Spoofing", threat_label |-> "S - Falsificacao de Identidade",
       detail |-> "Credenciais comprometidas podem ser usadas para impersonacao.",
       mitigation |-> "Habilitar MFA, rotacao de chaves e monitoramento de acessos.",
       severity |-> "CRITICAL"],
      [threat_type |-> "Repudiation", threat_label |-> "R - Repudio",
       detail |-> "Acoes administrativas sem logging adequado.",
       mitigation |-> "Habilitar CloudTrail em todas as regioes com log file validation.",
       severity |-> "HIGH"]
    >>

API_GATEWAY_THREATS ==
    <<
      [threat_type |-> "Spoofing", threat_label |-> "S - Falsificacao de Identidade",
       detail |-> "APIs sem autenticacao podem ser exploradas por atacantes.",
       mitigation |-> "Implementar API keys, OAuth2/JWT e throttling.",
       severity |-> "HIGH"],
      [threat_type |-> "Denial of Service", threat_label |-> "D - Negacao de Servico",
       detail |-> "Requisicoes em massa podem sobrecarregar o backend.",
       mitigation |-> "Configurar rate limiting, caching e request validation.",
       severity |-> "MEDIUM"],
      [threat_type |-> "Information Disclosure", threat_label |-> "I - Vazamento de Informacoes",
       detail |-> "Respostas de erro podem expor detalhes da infraestrutura.",
       mitigation |-> "Customizar error responses e habilitar request/response logging.",
       severity |-> "MEDIUM"]
    >>

MESSAGING_THREATS ==
    <<
      [threat_type |-> "Tampering", threat_label |-> "T - Adulteracao",
       detail |-> "Mensagens na fila podem ser modificadas em transito.",
       mitigation |-> "Habilitar encryption in-transit e at-rest, usar VPC endpoints.",
       severity |-> "HIGH"],
      [threat_type |-> "Information Disclosure", threat_label |-> "I - Vazamento de Informacoes",
       detail |-> "Mensagens podem conter dados sensiveis em plaintext.",
       mitigation |-> "Criptografar payloads sensiveis e usar client-side encryption.",
       severity |-> "HIGH"],
      [threat_type |-> "Denial of Service", threat_label |-> "D - Negacao de Servico",
       detail |-> "Message flooding pode saturar os consumidores.",
       mitigation |-> "Configurar dead-letter queues e limites de concurrency.",
       severity |-> "MEDIUM"]
    >>

MONITORING_THREATS ==
    <<
      [threat_type |-> "Tampering", threat_label |-> "T - Adulteracao",
       detail |-> "Logs podem ser modificados ou deletados para encobrir ataques.",
       mitigation |-> "Enviar logs para conta separada, habilitar log file integrity validation.",
       severity |-> "HIGH"],
      [threat_type |-> "Information Disclosure", threat_label |-> "I - Vazamento de Informacoes",
       detail |-> "Logs podem conter dados sensiveis (tokens, PII, etc).",
       mitigation |-> "Implementar log sanitization e acesso restrito a log groups.",
       severity |-> "MEDIUM"]
    >>

IDENTITY_THREATS ==
    <<
      [threat_type |-> "Spoofing", threat_label |-> "S - Falsificacao de Identidade",
       detail |-> "Credenciais de usuarios podem ser comprometidas via phishing.",
       mitigation |-> "Habilitar MFA, password policies fortes e anomaly detection.",
       severity |-> "CRITICAL"],
      [threat_type |-> "Elevation of Privilege", threat_label |-> "E - Elevacao de Privilegio",
       detail |-> "Usuarios podem tentar escalar privilegios via federation flaws.",
       mitigation |-> "Revisar trust policies, usar conditional access e RBAC.",
       severity |-> "HIGH"]
    >>

ML_AI_THREATS ==
    <<
      [threat_type |-> "Tampering", threat_label |-> "T - Adulteracao",
       detail |-> "Dataset ou modelo pode ser envenenado (data/model poisoning).",
       mitigation |-> "Validar integridade do dataset, usar model versioning e lineage tracking.",
       severity |-> "HIGH"],
      [threat_type |-> "Information Disclosure", threat_label |-> "I - Vazamento de Informacoes",
       detail |-> "Model inversion attacks podem extrair dados de treinamento.",
       mitigation |-> "Aplicar differential privacy e limitar acesso aos endpoints de inferencia.",
       severity |-> "HIGH"],
      [threat_type |-> "Denial of Service", threat_label |-> "D - Negacao de Servico",
       detail |-> "Inferencias custosas podem esgotar recursos e gerar custos.",
       mitigation |-> "Configurar auto-scaling limits, request throttling e budget alerts.",
       severity |-> "MEDIUM"]
    >>

SERVERLESS_THREATS ==
    <<
      [threat_type |-> "Elevation of Privilege", threat_label |-> "E - Elevacao de Privilegio",
       detail |-> "Funcoes Lambda com IAM Role permissiva.",
       mitigation |-> "Aplicar least privilege por funcao. Usar Resource-based policies.",
       severity |-> "HIGH"],
      [threat_type |-> "Denial of Service", threat_label |-> "D - Negacao de Servico",
       detail |-> "Execucao recursiva ou loop infinito pode esgotar concurrency.",
       mitigation |-> "Configurar reserved concurrency. Definir timeout adequado.",
       severity |-> "MEDIUM"],
      [threat_type |-> "Information Disclosure", threat_label |-> "I - Vazamento de Informacoes",
       detail |-> "Variaveis de ambiente podem expor secrets.",
       mitigation |-> "Usar Secrets Manager ou Parameter Store para dados sensiveis.",
       severity |-> "HIGH"]
    >>

DEVOPS_THREATS ==
    <<
      [threat_type |-> "Elevation of Privilege", threat_label |-> "E - Elevacao de Privilegio",
       detail |-> "Pipelines CI/CD geralmente tem permissoes elevadas para deploy.",
       mitigation |-> "Usar roles especificas por stage. Requerer aprovacao para producao.",
       severity |-> "CRITICAL"],
      [threat_type |-> "Tampering", threat_label |-> "T - Adulteracao",
       detail |-> "Codigo malicioso pode ser injetado no pipeline.",
       mitigation |-> "Habilitar branch protection. Requerer code review. Assinar commits.",
       severity |-> "HIGH"],
      [threat_type |-> "Information Disclosure", threat_label |-> "I - Vazamento de Informacoes",
       detail |-> "Secrets podem ser expostos em logs de build.",
       mitigation |-> "Usar Secrets Manager. Nunca hardcode secrets. Mascarar em logs.",
       severity |-> "HIGH"]
    >>

ANALYTICS_THREATS ==
    <<
      [threat_type |-> "Information Disclosure", threat_label |-> "I - Vazamento de Informacoes",
       detail |-> "Queries em data lakes podem expor dados sensiveis entre equipes.",
       mitigation |-> "Implementar column-level security e row-level filtering.",
       severity |-> "HIGH"],
      [threat_type |-> "Tampering", threat_label |-> "T - Adulteracao",
       detail |-> "Resultados de analises podem ser manipulados.",
       mitigation |-> "Habilitar audit logging e versionamento de datasets.",
       severity |-> "MEDIUM"]
    >>

GROUPS_THREATS ==
    <<
      [threat_type |-> "Spoofing", threat_label |-> "S - Falsificacao de Identidade",
       detail |-> "Agrupamentos de recursos podem mascarar acessos nao autorizados.",
       mitigation |-> "Definir boundaries claros com resource policies e tags obrigatorias.",
       severity |-> "MEDIUM"]
    >>

\* OTHER_THREATS left without a threat
OTHER_THREATS_empty == <<>>

OTHER_THREATS ==
    <<
      [threat_type |-> "Spoofing", threat_label |-> "S - Falsificacao de Identidade",
       detail |-> "Componente nao categorizado requer revisao manual de seguranca.",
       mitigation |-> "Verificar autenticacao e autorizacao manualmente.",
       severity |-> "MEDIUM"]
    >>


\* the threat lists of the module, by the name a profile refers to them with
KNOWLEDGE_BASE ==
       ("COMPUTE_THREATS" :> COMPUTE_THREATS)
    @@ ("DATABASE_THREATS" :> DATABASE_THREATS)
    @@ ("STORAGE_THREATS" :> STORAGE_THREATS)
    @@ ("NETWORK_THREATS" :> NETWORK_THREATS)
    @@ ("SECURITY_THREATS" :> SECURITY_THREATS)
    @@ ("API_GATEWAY_THREATS" :> API_GATEWAY_THREATS)
    @@ ("MESSAGING_THREATS" :> MESSAGING_THREATS)
    @@ ("MONITORING_THREATS" :> MONITORING_THREATS)
    @@ ("IDENTITY_THREATS" :> IDENTITY_THREATS)
    @@ ("ML_AI_THREATS" :> ML_AI_THREATS)
    @@ ("SERVERLESS_THREATS" :> SERVERLESS_THREATS)
    @@ ("DEVOPS_THREATS" :> DEVOPS_THREATS)
    @@ ("ANALYTICS_THREATS" :> ANALYTICS_THREATS)
    @@ ("GROUPS_THREATS" :> GROUPS_THREATS)
    @@ ("OTHER_THREATS" :> OTHER_THREATS)

\* category -> (element_type, stride_summary, description, threats); threats
\* is the list of the knowledge base itself, held by reference
_CATEGORY_PROFILES ==
       ("compute" :> [element_type |-> "Process", stride_summary |-> "S, T, E",
        description |-> "Recursos de computacao (VMs, containers, instancias)",
        threats |-> "COMPUTE_THREATS"])
    @@ ("database" :> [element_type |-> "Data Store", stride_summary |-> "T, I, D",
        description |-> "Bancos de dados relacionais e NoSQL",
        threats |-> "DATABASE_THREATS"])
    @@ ("storage" :> [element_type |-> "Data Store", stride_summary |-> "I, T, R",
        description |-> "Armazenamento de objetos e arquivos",
        threats |-> "STORAGE_THREATS"])
    @@ ("network" :> [element_type |-> "Data Flow", stride_summary |-> "S, I, D",
        description |-> "Componentes de rede e conectividade",
        threats |-> "NETWORK_THREATS"])
    @@ ("security" :> [element_type |-> "Trust Boundary", stride_summary |-> "S, E, R",
        description |-> "Servicos de seguranca e protecao",
        threats |-> "SECURITY_THREATS"])
    @@ ("api_gateway" :> [element_type |-> "Process", stride_summary |-> "S, D, I",
        description |-> "API Gateways e servicos de integracao",
        threats |-> "API_GATEWAY_THREATS"])
    @@ ("messaging" :> [element_type |-> "Data Flow", stride_summary |-> "T, I, D",
        description |-> "Filas de mensagens e streaming de eventos",
        threats |-> "MESSAGING_THREATS"])
    @@ ("monitoring" :> [element_type |-> "Data Store", stride_summary |-> "T, I",
        description |-> "Servicos de monitoramento e logging",
        threats |-> "MONITORING_THREATS"])
    @@ ("identity" :> [element_type |-> "External Entity", stride_summary |-> "S, E",
        description |-> "Provedores de identidade e autenticacao",
        threats |-> "IDENTITY_THREATS"])
    @@ ("ml_ai" :> [element_type |-> "Process", stride_summary |-> "T, I, D",
        description |-> "Servicos de Machine Learning e IA",
        threats |-> "ML_AI_THREATS"])
    @@ ("serverless" :> [element_type |-> "Process", stride_summary |-> "I, D, E",
        description |-> "Funcoes e servicos serverless",
        threats |-> "SERVERLESS_THREATS"])
    @@ ("devops" :> [element_type |-> "Process", stride_summary |-> "T, I, E",
        description |-> "Ferramentas de CI/CD e automacao",
        threats |-> "DEVOPS_THREATS"])
    @@ ("analytics" :> [element_type |-> "Data Store", stride_summary |-> "I, T",
        description |-> "Servicos de analytics e data lake",
        threats |-> "ANALYTICS_THREATS"])
    @@ ("groups" :> [element_type |-> "Trust Boundary", stride_summary |-> "S",
        description |-> "Agrupamentos de recursos e boundaries",
        threats |-> "GROUPS_THREATS"])
    @@ ("other" :> [element_type |-> "External Entity", stride_summary |-> "S",
        description |-> "Componente nao categorizado",
        threats |-> "OTHER_THREATS"])

(* ---------------------------- CategoryClassifier ---------------------- *)

\* IsCategoryValue without the enumeration lookup: any value is stored
IsCategoryValue_any(value) == TRUE

\* ComponentCategory(value): the member with that value, or ValueError
IsCategoryValue(value) == value \in ComponentCategory

\* the loop of __init__ over custom_mappings.items(), from item i on:
\* stops with ValueError at the first value that is no category
RECURSIVE init_loop(_, _, _)
init_loop(map, custom_mappings, i) ==
    IF i > Len(custom_mappings) THEN [raised |-> FALSE, map |-> map]
    ELSE IF ~IsCategoryValue(custom_mappings[i][2])
         THEN [raised |-> TRUE, map |-> map]
         ELSE init_loop(dict_set(map, custom_mappings[i][1], custom_mappings[i][2]),
                        custom_mappings, i + 1)

\* map.update(items): every item assigned as it is
RECURSIVE update_all(_, _, _)
update_all(map, items, i) ==
    IF i > Len(items) THEN map
    ELSE update_all(dict_set(map, items[i][1], items[i][2]), items, i + 1)

\* a constructor that takes the custom values as they are, without
\* ComponentCategory(value)
CategoryClassifier_init_unvalidated(custom_mappings) ==
    [raised |-> FALSE, map |-> update_all(module_component_map, custom_mappings, 1)]

\* a constructor that starts from the custom mappings and adds the seeded
\* entries whose key is not among them: the custom keys are scanned first
CategoryClassifier_init_custom_first(custom_mappings) ==
    LET made == init_loop(<<>>, custom_mappings, 1)
        NotCustom(entry) == ~dict_contains(made.map, entry[1])
    IN  IF made.raised THEN [raised |-> TRUE, map |-> module_component_map]
        ELSE [raised |-> FALSE,
              map |-> made.map \o SelectSeq(module_component_map, NotCustom)]

\* CategoryClassifier.__init__(custom_mappings): the loop runs on dict(_COMPONENT_MAP),
\* a copy of the module-level table as it is now; None is the empty mapping
CategoryClassifier_init(custom_mappings) ==
    init_loop(module_component_map, custom_mappings, 1)

\* key.lower() in name_lower or name_lower in key.lower()
PartialMatch(key, name_lower) ==
    LET key_lower == lower(key)
    IN  Contains(key_lower, name_lower) \/ Contains(name_lower, key_lower)

\* partial_scan without the early return: the last matching entry decides
partial_scan_last(map, name_lower) ==
    LET hits == {i \in 1..Len(map) : PartialMatch(map[i][1], name_lower)}
    IN  IF hits = {} THEN "other"
        ELSE map[CHOOSE i \in hits : \A j \in hits : i >= j][2]

\* the partial-match loop of classify over self._component_map.items():
\* the category of the first entry, in table order, whose key matches
partial_scan(map, name_lower) ==
    LET hits == {i \in 1..Len(map) : PartialMatch(map[i][1], name_lower)}
    IN  IF hits = {} THEN "other"
        ELSE map[CHOOSE i \in hits : \A j \in hits : i <= j][2]

\* classify without the exact lookup
classify_partial_only(map, component_name) ==
    IF IsBlank(component_name) THEN "other"
    ELSE partial_scan(map, lower(component_name))

\* CategoryClassifier.classify(component_name) on a classifier whose table is map
classify(map, component_name) ==
    IF IsBlank(component_name) THEN "other"
    ELSE IF dict_contains(map, component_name) THEN dict_get(map, component_name)
    ELSE partial_scan(map, lower(component_name))

(* ------------------------------ StrideEngine -------------------------- *)

\* the dataclass ComponentAnalysis
ComponentAnalysis(component, category, element_type, stride_summary, description, risks) ==
    [component |-> component, category |-> category, element_type |-> element_type,
     stride_summary |-> stride_summary, description |-> description, risks |-> risks]

\* ComponentAnalysis.risk_count
risk_count(a) == Len(a.risks)

\* severity_order.get(severity, 0)
severity_order(severity) ==
    CASE severity = "CRITICAL" -> 4
      [] severity = "HIGH" -> 3
      [] severity = "MEDIUM" -> 2
      [] severity = "LOW" -> 1
      [] OTHER -> 0

\* max_severity that takes the severity of the first risk
max_severity_first_risk(a) ==
    IF Len(a.risks) = 0 THEN "LOW" ELSE a.risks[1].severity

\* ComponentAnalysis.max_severity: max() returns the first risk of the
\* highest rank
max_severity(a) ==
    IF Len(a.risks) = 0 THEN "LOW"
    ELSE a.risks[CHOOSE i \in 1..Len(a.risks) :
                    /\ \A j \in 1..Len(a.risks) :
                          severity_order(a.risks[j].severity)
                              <= severity_order(a.risks[i].severity)
                    /\ \A j \in 1..(i - 1) :
                          severity_order(a.risks[j].severity)
                              < severity_order(a.risks[i].severity)].severity

\* to_dict that copies the fields under their attribute names, as
\* dataclasses.asdict does
to_dict_asdict(a) ==
    [component |-> a.component, category |-> a.category,
     element_type |-> a.element_type, stride_summary |-> a.stride_summary,
     description |-> a.description, risks |-> a.risks]

\* ComponentAnalysis.to_dict()
to_dict(a) ==
    [component |-> a.component, category |-> a.category,
     element_type |-> a.element_type, stride_summary |-> a.stride_summary,
     description |-> a.description,
     risks |-> [i \in 1..Len(a.risks) |->
                  [type |-> a.risks[i].threat_type, threat |-> a.risks[i].threat_label,
                   detail |-> a.risks[i].detail, mitigation |-> a.risks[i].mitigation,
                   severity |-> a.risks[i].severity]]]

\* an Optional[ComponentAnalysis]
None == [kind |-> "None", val |-> <<>>]
Some(a) == [kind |-> "analysis", val |-> a]

\* StrideEngine._build_generic_analysis(component, category); the description
\* f"Componente '{component}' sem analise especifica" is the pair of its
\* template and the component
_build_generic_analysis(component, category) ==
    ComponentAnalysis(component, category, "External Entity", "S",
        <<"Componente '{component}' sem analise especifica", component>>,
        << [threat_type |-> "Spoofing",
            threat_label |-> "S - Falsificacao de Identidade",
            detail |-> "Componente nao categorizado requer revisao manual.",
            mitigation |-> "Verificar autenticacao e autorizacao manualmente.",
            severity |-> "MEDIUM"] >>)

\* analyze that stores the stripped name as the component
analyze_stripped(map, component_name) ==
    IF IsBlank(component_name) THEN None
    ELSE LET category == classify(map, component_name)
             profile == category_profiles[category]
         IN  Some(ComponentAnalysis(strip(component_name), category,
                      profile.element_type, profile.stride_summary,
                      profile.description, knowledge_base[profile.threats]))

\* analyze that gives up on a category without a profile
analyze_unprofiled_is_none(map, component_name) ==
    IF IsBlank(component_name) THEN None
    ELSE LET category == classify(map, component_name)
         IN  IF category \notin DOMAIN category_profiles
             THEN None
             ELSE LET profile == category_profiles[category]
                  IN  Some(ComponentAnalysis(component_name, category,
                               profile.element_type, profile.stride_summary,
                               profile.description, knowledge_base[profile.threats]))

\* analyze that treats the category other as unanalyzable
analyze_other_is_none(map, component_name) ==
    IF IsBlank(component_name) THEN None
    ELSE LET category == classify(map, component_name)
         IN  IF category = "other" THEN None
             ELSE LET profile == category_profiles[category]
                  IN  Some(ComponentAnalysis(component_name, category,
                               profile.element_type, profile.stride_summary,
                               profile.description, knowledge_base[profile.threats]))

\* StrideEngine.analyze(component_name) on an engine whose classifier's table is
\* map; risks is list(threats), a copy of the list the profile refers to
analyze(map, component_name) ==
    IF IsBlank(component_name) THEN None
    ELSE LET category == classify(map, component_name)
         IN  IF category \notin DOMAIN category_profiles
             THEN Some(_build_generic_analysis(component_name, category))
             ELSE LET profile == category_profiles[category]
                  IN  Some(ComponentAnalysis(component_name, category,
                               profile.element_type, profile.stride_summary,
                               profile.description, knowledge_base[profile.threats]))

\* severity_weight with the default of get() set to the weight of LOW
severity_weight_default_low(severity) ==
    CASE severity = "CRITICAL" -> 10
      [] severity = "HIGH" -> 7
      [] severity = "MEDIUM" -> 4
      [] OTHER -> 1

\* severity_weights.get(severity, 0)
severity_weight(severity) ==
    CASE severity = "CRITICAL" -> 10
      [] severity = "HIGH" -> 7
      [] severity = "MEDIUM" -> 4
      [] severity = "LOW" -> 1
      [] OTHER -> 0

\* sum(severity_weights.get(risk.severity, 0) for risk in risks[i..])
RECURSIVE sum_risks(_, _)
sum_risks(risks, i) ==
    IF i > Len(risks) THEN 0
    ELSE severity_weight(risks[i].severity) + sum_risks(risks, i + 1)

\* the same sum over analyses[i..] and their risks
RECURSIVE sum_analyses(_, _)
sum_analyses(analyses, i) ==
    IF i > Len(analyses) THEN 0
    ELSE sum_risks(analyses[i].risks, 1) + sum_analyses(analyses, i + 1)

\* round(num / den, 0) as Python rounds: to the nearest integer, a tie to the
\* even one.  num / den is exact here; the double computed by the code rounds
\* to the same tenth for every total whenever len(analyses) < 8 (a tie needs
\* len(analyses) to be a multiple of 8).
round_half_even(num, den) ==
    LET q == num \div den
        r == num % den
    IN  IF 2 * r < den THEN q
        ELSE IF 2 * r > den THEN q + 1
        ELSE IF q % 2 = 0 THEN q ELSE q + 1

min(a, b) == IF a <= b THEN a ELSE b

\* the elements of s without their later repetitions
RECURSIVE dedup(_)
dedup(s) ==
    IF Len(s) = 0 THEN <<>>
    ELSE LET front == dedup(SubSeq(s, 1, Len(s) - 1))
         IN  IF \E j \in 1..Len(front) : front[j] = s[Len(s)]
             THEN front
             ELSE Append(front, s[Len(s)])

\* _calculate_risk_score that adds up each distinct analysis once
_calculate_risk_score_distinct_components(analyses) ==
    IF Len(analyses) = 0 THEN 0
    ELSE LET total == sum_analyses(dedup(analyses), 1)
             max_possible == Len(analyses) * 3 * severity_weight("CRITICAL")
         IN  IF max_possible # 0
             THEN min(round_half_even(total * 100 * 10, max_possible), 1000)
             ELSE 0

\* _calculate_risk_score normalised by one CRITICAL risk per component
_calculate_risk_score_one_per_component(analyses) ==
    IF Len(analyses) = 0 THEN 0
    ELSE LET total == sum_analyses(analyses, 1)
             max_possible == Len(analyses) * severity_weight("CRITICAL")
         IN  round_half_even(total * 100 * 10, max_possible)

\* _calculate_risk_score that scores the empty list as the worst case
_calculate_risk_score_empty_is_max(analyses) ==
    LET total == sum_analyses(analyses, 1)
        max_possible == Len(analyses) * 3 * severity_weight("CRITICAL")
    IN  IF max_possible # 0
        THEN min(round_half_even(total * 100 * 10, max_possible), 1000)
        ELSE 1000

\* StrideEngine._calculate_risk_score(analyses), in tenths
_calculate_risk_score(analyses) ==
    IF Len(analyses) = 0 THEN 0
    ELSE LET total == sum_analyses(analyses, 1)
             max_possible == Len(analyses) * 3 * severity_weight("CRITICAL")
         IN  IF max_possible # 0
             THEN min(round_half_even(total * 100 * 10, max_possible), 1000)
             ELSE 0

\* _get_risk_level with the thresholds of the legacy engine (0.3, 0.6, 0.8 of
\* the scale)
_get_risk_level_legacy(score) ==
    IF score < 300 THEN "LOW"
    ELSE IF score < 600 THEN "MEDIUM"
    ELSE IF score < 800 THEN "HIGH"
    ELSE "CRITICAL"

\* _get_risk_level with > in place of >=
_get_risk_level_exclusive(score) ==
    IF score > 750 THEN "CRITICAL"
    ELSE IF score > 500 THEN "HIGH"
    ELSE IF score > 250 THEN "MEDIUM"
    ELSE "LOW"

\* StrideEngine._get_risk_level(score), score in tenths
_get_risk_level(score) ==
    IF score >= 750 THEN "CRITICAL"
    ELSE IF score >= 500 THEN "HIGH"
    ELSE IF score >= 250 THEN "MEDIUM"
    ELSE "LOW"

\* the loop of analyze_architecture over components[i..]
RECURSIVE architecture_loop(_, _, _, _, _)
architecture_loop(map, components, i, analyses, failed) ==
    IF i > Len(components) THEN [analyses |-> analyses, failed |-> failed]
    ELSE LET result == analyze(map, components[i])
         IN  IF result.kind = "analysis"
             THEN architecture_loop(map, components, i + 1,
                                    Append(analyses, result.val), failed)
             ELSE architecture_loop(map, components, i + 1,
                                    analyses, Append(failed, components[i]))

\* analyze_architecture that analyses every distinct name once
analyze_architecture_dedup(map, components) ==
    LET done == architecture_loop(map, dedup(components), 1, <<>>, <<>>)
        risk_score == _calculate_risk_score(done.analyses)
    IN  [total_components |-> Len(components),
         analyzed |-> Len(done.analyses),
         failed |-> done.failed,
         risk_score |-> risk_score,
         risk_level |-> _get_risk_level(risk_score),
         components |-> [i \in 1..Len(done.analyses) |-> to_dict(done.analyses[i])]]

\* analyze_architecture whose score counts a failed name as a component
\* without risks
analyze_architecture_score_all(map, components) ==
    LET done == architecture_loop(map, components, 1, <<>>, <<>>)
        blanks == [i \in 1..Len(done.failed) |->
                      ComponentAnalysis(done.failed[i], "other", "", "", "", <<>>)]
        risk_score == _calculate_risk_score(done.analyses \o blanks)
    IN  [total_components |-> Len(components),
         analyzed |-> Len(done.analyses),
         failed |-> done.failed,
         risk_score |-> risk_score,
         risk_level |-> _get_risk_level(risk_score),
         components |-> [i \in 1..Len(done.analyses) |-> to_dict(done.analyses[i])]]

\* analyze_architecture that counts only the analyzed names as the total
analyze_architecture_total_analyzed(map, components) ==
    LET done == architecture_loop(map, components, 1, <<>>, <<>>)
        risk_score == _calculate_risk_score(done.analyses)
    IN  [total_components |-> Len(done.analyses),
         analyzed |-> Len(done.analyses),
         failed |-> done.failed,
         risk_score |-> risk_score,
         risk_level |-> _get_risk_level(risk_score),
         components |-> [i \in 1..Len(done.analyses) |-> to_dict(done.analyses[i])]]

\* StrideEngine.analyze_architecture(components)
analyze_architecture(map, components) ==
    LET done == architecture_loop(map, components, 1, <<>>, <<>>)
        risk_score == _calculate_risk_score(done.analyses)
    IN  [total_components |-> Len(components),
         analyzed |-> Len(done.analyses),
         failed |-> done.failed,
         risk_score |-> risk_score,
         risk_level |-> _get_risk_level(risk_score),
         components |-> [i \in 1..Len(done.analyses) |-> to_dict(done.analyses[i])]]

(* ------------------------------- inputs ------------------------------- *)

\* characters of the generated names: both cases of a letter, a digit,
\* whitespace, and a character that occurs in no seeded key
Alphabet == {"S", "s", "3", " ", "_"}

\* every string over Alphabet of length at most MaxLen
BoundedStrings == UNION {[1..n -> Alphabet] : n \in 0..MaxLen}

\* names used by the tests (src/tests/test_stride_engine.py) and variants
LiteralNames ==
    {<<"E", "C", "2">>,
     <<"A", "m", "a", "z", "o", "n", " ", "S", "3", " ", "B", "u", "c", "k", "e", "t">>,
     <<"U", "n", "k", "n", "o", "w", "n", "W", "i", "d", "g", "e", "t", "1", "2", "3">>,
     <<"C", "o", "m", "p", "l", "e", "t", "e", "l", "y", "U", "n", "k", "n", "o", "w", "n", "T", "h", "i", "n", "g">>,
     <<"M", "y", "S", "e", "r", "v", "i", "c", "e">>,
     <<" ", " ", " ">>,
     <<"R", "D", "S">>,
     <<"I", "A", "M">>,
     <<"e", "c", "2">>,
     <<"S", "t", "e", "p", " ", "F", "u", "n", "c", "t", "i", "o", "n", "s">>}

Names == BoundedStrings \cup LiteralNames

\* names of the component lists: two blank names, seeded names whose
\* profiles weigh 24, 21, 15 and 11, and a name no key matches (weight 4)
ArchNames ==
    {<<>>,
     <<" ">>,
     <<"E", "C", "2">>,
     <<"S", "3">>,
     <<"A", "P", "I", " ", "G", "a", "t", "e", "w", "a", "y">>,
     <<"C", "l", "o", "u", "d", "W", "a", "t", "c", "h">>,
     <<"_">>}

\* every list of at most MaxComponents names
ComponentLists == UNION {[1..n -> ArchNames] : n \in 0..MaxComponents}

\* the custom_mappings given to CategoryClassifier
CustomMappings ==
    {\* no custom mappings (None or {})
     <<>>,
     \* the mapping of test_custom_mappings
     <<<<<<"M", "y", "S", "e", "r", "v", "i", "c", "e">>, "compute">>>>,
     \* a seeded key overridden
     <<<<<<"S", "3">>, "compute">>>>,
     \* a new key that an earlier seeded key (S3) matches partially
     <<<<<<"s", "3">>, "network">>>>,
     \* a new key and a seeded key overridden
     <<<<<<"_">>, "ml_ai">>, <<<<"E", "C", "2">>, "other">>>>,
     \* a blank key and a whitespace key
     <<<<<<>>, "devops">>, <<<<" ">>, "security">>>>,
     \* a value that is no category
     <<<<<<"M", "y", "S", "e", "r", "v", "i", "c", "e">>, "bogus">>>>,
     \* a valid entry, then a category name in the wrong case
     <<<<<<"S", "3">>, "compute">>, <<<<"_">>, "Compute">>>>}

\* severity strings: the four with a weight, and two without
SeverityStrings == {"CRITICAL", "HIGH", "MEDIUM", "LOW", "INFO", "critical"}

\* a ThreatRisk of the given severity
Risk(severity) ==
    [threat_type |-> "Tampering", threat_label |-> "T - Adulteracao",
     detail |-> "detail", mitigation |-> "mitigation", severity |-> severity]

\* risk lists of the analyses given to _calculate_risk_score: none, one of
\* each severity, mixed ones, three CRITICAL (the ceiling) and four (above it)
RiskLists ==
    {<<>>} \cup {<<Risk(s)>> : s \in SeverityStrings}
    \cup {<<Risk("HIGH"), Risk("INFO"), Risk("LOW")>>,
          <<Risk("CRITICAL"), Risk("CRITICAL"), Risk("CRITICAL")>>,
          <<Risk("CRITICAL"), Risk("CRITICAL"), Risk("CRITICAL"), Risk("CRITICAL")>>}

SampleAnalyses ==
    {ComponentAnalysis(<<"x">>, "other", "Process", "T", "description", risks) :
        risks \in RiskLists}

\* every list of at most MaxComponents such analyses
AnalysisLists == UNION {[1..n -> SampleAnalyses] : n \in 0..MaxComponents}

\* scores given to _get_risk_level, in tenths: -1.0 to 101.0
Scores == (0 - 10)..(1000 + 10)

(* ---------------------------- state machine --------------------------- *)

Idle == [op |-> "idle", arg |-> <<>>]
NoResult == [kind |-> "none", val |-> <<>>]

\* no earlier report is remembered
NotSeen == [kind |-> "none", input |-> <<>>, report |-> <<>>, between |-> FALSE]

\* the names of the concurrent callers
Threads == {"t1", "t2"}

\* the caller keeps no analysis and no list has been created for one
NothingHeld == [analyses |-> <<>>, lists |-> <<>>]

\* a caller that is not in a call
ThreadIdle ==
    [pc |-> "idle", op |-> "none", input |-> <<>>, i |-> 0,
     analyses |-> <<>>, failed |-> <<>>, result |-> NoResult]

\* the modules are imported: the seeded table, the threat lists and the
\* profile table hold their literals
SharedInit ==
    /\ module_component_map = _COMPONENT_MAP
    /\ category_profiles = _CATEGORY_PROFILES
    /\ knowledge_base = KNOWLEDGE_BASE

\* StrideEngine() with the default CategoryClassifier()
Init ==
    /\ SharedInit
    /\ _component_map = CategoryClassifier_init(<<>>).map
    /\ constructed_with = <<>>
    /\ call = Idle
    /\ ret = NoResult
    /\ seen = NotSeen
    /\ threads = [t \in Threads |-> ThreadIdle]
    /\ held = NothingHeld

\* a constructor without the copy dict(_COMPONENT_MAP): the classifier's table
\* is the module's table itself, and the custom mappings are written into it
Construct_shared_table(custom_mappings) ==
    /\ call = Idle
    /\ call' = [op |-> "construct", arg |-> custom_mappings]
    /\ LET made == CategoryClassifier_init(custom_mappings)
       IN  IF made.raised
           THEN /\ ret' = [kind |-> "raise", val |-> "ValueError"]
                /\ UNCHANGED <<_component_map, constructed_with, shared, seen, threads, held>>
           ELSE /\ ret' = [kind |-> "classifier", val |-> made.map]
                /\ _component_map' = made.map
                /\ module_component_map' = made.map
                /\ constructed_with' = custom_mappings
                /\ UNCHANGED <<category_profiles, knowledge_base, seen, threads, held>>

\* StrideEngine(CategoryClassifier(custom_mappings)): the new engine replaces
\* the old one, unless the constructor raises ValueError
Construct(custom_mappings) ==
    /\ call = Idle
    /\ call' = [op |-> "construct", arg |-> custom_mappings]
    /\ LET made == CategoryClassifier_init(custom_mappings)
       IN  IF made.raised
           THEN /\ ret' = [kind |-> "raise", val |-> "ValueError"]
                /\ UNCHANGED <<_component_map, constructed_with, shared, seen, threads, held>>
           ELSE /\ ret' = [kind |-> "classifier", val |-> made.map]
                /\ _component_map' = made.map
                /\ constructed_with' = custom_mappings
                /\ UNCHANGED <<shared, seen, threads, held>>

\* classifier.classify(name)
Classify(name) ==
    /\ call = Idle
    /\ call' = [op |-> "classify", arg |-> name]
    /\ ret' = [kind |-> "category", val |-> classify(_component_map, name)]
    /\ UNCHANGED <<_component_map, constructed_with, shared, seen, threads, held>>

\* engine.analyze(name)
Analyze(name) ==
    /\ call = Idle
    /\ call' = [op |-> "analyze", arg |-> name]
    /\ ret' = analyze(_component_map, name)
    /\ UNCHANGED <<_component_map, constructed_with, shared, seen, threads, held>>

\* engine.analyze_architecture(components)
AnalyzeArchitecture(components) ==
    /\ call = Idle
    /\ call' = [op |-> "analyze_architecture", arg |-> components]
    /\ ret' = [kind |-> "report", val |-> analyze_architecture(_component_map, components)]
    /\ UNCHANGED <<_component_map, constructed_with, shared, seen, threads, held>>

\* the caller takes the result; the engine is ready for the next call
Return ==
    /\ call # Idle
    /\ call' = Idle
    /\ ret' = NoResult
    /\ UNCHANGED <<_component_map, constructed_with, shared, seen, threads, held>>

Next ==
    \/ \E custom_mappings \in CustomMappings : Construct(custom_mappings)
    \/ \E name \in Names : Classify(name)
    \/ \E name \in Names : Analyze(name)
    \/ \E components \in ComponentLists : AnalyzeArchitecture(components)
    \/ Return

Spec == Init /\ [][Next]_vars

\* StrideEngine._calculate_risk_score(analyses), called directly
CalculateRiskScore(analyses) ==
    /\ call = Idle
    /\ call' = [op |-> "_calculate_risk_score", arg |-> analyses]
    /\ ret' = [kind |-> "score", val |-> _calculate_risk_score(analyses)]
    /\ UNCHANGED <<_component_map, constructed_with, shared, seen, threads, held>>

\* StrideEngine._get_risk_level(score), called directly
GetRiskLevel(score) ==
    /\ call = Idle
    /\ call' = [op |-> "_get_risk_level", arg |-> score]
    /\ ret' = [kind |-> "level", val |-> _get_risk_level(score)]
    /\ UNCHANGED <<_component_map, constructed_with, shared, seen, threads, held>>

NextScore ==
    \/ \E analyses \in AnalysisLists : CalculateRiskScore(analyses)
    \/ \E score \in Scores : GetRiskLevel(score)
    \/ Return

\* the two static scoring functions on their own
SpecScore == Init /\ [][NextScore]_vars

(* ----------------- repeated calls on one engine ----------------- *)

\* the longest list of the repeated calls
MaxRepeat == 2

\* the names of the repeated calls: an empty name, a fragment of seeded keys,
\* and a name that no seeded key matches
RepeatNames == {<<>>, <<"s">>, <<"s", "_">>}
RepeatLists == UNION {[1..n -> RepeatNames] : n \in 0..MaxRepeat}

\* one engine, built with any of the custom mappings the constructor accepts
InitRepeat ==
    /\ SharedInit
    /\ \E custom_mappings \in CustomMappings :
          LET made == CategoryClassifier_init(custom_mappings)
          IN  /\ ~made.raised
              /\ _component_map = made.map
              /\ constructed_with = custom_mappings
    /\ call = Idle
    /\ ret = NoResult
    /\ seen = NotSeen
    /\ threads = [t \in Threads |-> ThreadIdle]
    /\ held = NothingHeld

\* engine.analyze_architecture(components), whose input and report the caller
\* keeps for a later comparison
RememberedCall(components) ==
    /\ call = Idle
    /\ seen = NotSeen
    /\ call' = [op |-> "analyze_architecture", arg |-> components]
    /\ LET report == analyze_architecture(_component_map, components)
       IN  /\ ret' = [kind |-> "report", val |-> report]
           /\ seen' = [kind |-> "report", input |-> components,
                       report |-> report, between |-> FALSE]
    /\ UNCHANGED <<_component_map, constructed_with, shared, threads, held>>

\* engine.analyze(name) that writes the category it found into the
\* classifier's table, as a cache of the lookup
AnalyzeBetween_caching(name) ==
    /\ call = Idle
    /\ call' = [op |-> "analyze", arg |-> name]
    /\ LET result == analyze(_component_map, name)
       IN  /\ ret' = result
           /\ _component_map' =
                  IF result.kind = "analysis"
                  THEN dict_set(_component_map, name, result.val.category)
                  ELSE _component_map
    /\ seen' = IF seen.kind = "report" THEN [seen EXCEPT !.between = TRUE] ELSE seen
    /\ UNCHANGED <<constructed_with, shared, threads, held>>

\* engine.analyze(name), before or after the remembered call
AnalyzeBetween(name) ==
    /\ call = Idle
    /\ call' = [op |-> "analyze", arg |-> name]
    /\ ret' = analyze(_component_map, name)
    /\ seen' = IF seen.kind = "report" THEN [seen EXCEPT !.between = TRUE] ELSE seen
    /\ UNCHANGED <<_component_map, constructed_with, shared, threads, held>>

\* engine.analyze_architecture(components), before or after the remembered
\* call, on the remembered input or on another one
AnalyzeArchitectureAgain(components) ==
    /\ call = Idle
    /\ call' = [op |-> "analyze_architecture", arg |-> components]
    /\ ret' = [kind |-> "report", val |-> analyze_architecture(_component_map, components)]
    /\ seen' = IF seen.kind = "report" /\ components # seen.input
               THEN [seen EXCEPT !.between = TRUE]
               ELSE seen
    /\ UNCHANGED <<_component_map, constructed_with, shared, threads, held>>

NextRepeat ==
    \/ \E components \in RepeatLists : RememberedCall(components)
    \/ \E name \in RepeatNames : AnalyzeBetween(name)
    \/ \E components \in RepeatLists : AnalyzeArchitectureAgain(components)
    \/ Return

SpecRepeat == InitRepeat /\ [][NextRepeat]_vars

(* ---------------- concurrent calls on one engine ---------------- *)

\* the longest list of a concurrent call
MaxConcurrent == 2

\* the names of the concurrent calls: a blank name and two seeded keys of
\* different categories
ConcurrentNames == {<<" ">>, <<"E", "C", "2">>, <<"S", "3">>}
ConcurrentLists == UNION {[1..n -> ConcurrentNames] : n \in 0..MaxConcurrent}

\* the report analyze_architecture builds after its loop
build_report(components, analyses, failed) ==
    LET risk_score == _calculate_risk_score(analyses)
    IN  [total_components |-> Len(components),
         analyzed |-> Len(analyses),
         failed |-> failed,
         risk_score |-> risk_score,
         risk_level |-> _get_risk_level(risk_score),
         components |-> [i \in 1..Len(analyses) |-> to_dict(analyses[i])]]

\* thread t calls engine.analyze(name): the method has no loop and keeps
\* nothing between its statements but its locals
CallAnalyze(t, name) ==
    /\ threads[t].pc = "idle"
    /\ threads' = [threads EXCEPT ![t] =
                      [pc |-> "done", op |-> "analyze", input |-> name, i |-> 0,
                       analyses |-> <<>>, failed |-> <<>>,
                       result |-> analyze(_component_map, name)]]
    /\ UNCHANGED <<_component_map, constructed_with, call, ret, shared, seen, held>>

\* thread t enters engine.analyze_architecture(components): analyses and failed
\* are new empty lists, local to the call
CallAnalyzeArchitecture(t, components) ==
    /\ threads[t].pc = "idle"
    /\ threads' = [threads EXCEPT ![t] =
                      [pc |-> "loop", op |-> "analyze_architecture",
                       input |-> components, i |-> 1,
                       analyses |-> <<>>, failed |-> <<>>, result |-> NoResult]]
    /\ UNCHANGED <<_component_map, constructed_with, call, ret, shared, seen, held>>

\* one iteration of the loop, with analyses and failed kept on the engine
\* instead of in the call: every call in its loop receives the entry
LoopStep_shared_accumulators(t) ==
    /\ threads[t].pc = "loop"
    /\ threads[t].i <= Len(threads[t].input)
    /\ LET name == threads[t].input[threads[t].i]
           result == analyze(_component_map, name)
       IN  threads' = [u \in Threads |->
              IF threads[u].pc # "loop" THEN threads[u]
              ELSE [threads[u] EXCEPT
                      !.i = IF u = t THEN @ + 1 ELSE @,
                      !.analyses = IF result.kind = "analysis"
                                   THEN Append(@, result.val) ELSE @,
                      !.failed = IF result.kind = "analysis"
                                 THEN @ ELSE Append(@, name)]]
    /\ UNCHANGED <<_component_map, constructed_with, call, ret, shared, seen, held>>

\* one iteration of the loop of analyze_architecture in thread t
LoopStep(t) ==
    /\ threads[t].pc = "loop"
    /\ threads[t].i <= Len(threads[t].input)
    /\ LET name == threads[t].input[threads[t].i]
           result == analyze(_component_map, name)
       IN  threads' = [threads EXCEPT ![t] =
              [@ EXCEPT
                 !.i = @ + 1,
                 !.analyses = IF result.kind = "analysis"
                              THEN Append(@, result.val) ELSE @,
                 !.failed = IF result.kind = "analysis"
                            THEN @ ELSE Append(@, name)]]
    /\ UNCHANGED <<_component_map, constructed_with, call, ret, shared, seen, held>>

\* the loop of thread t is over: the score, the level and the report
Finish(t) ==
    /\ threads[t].pc = "loop"
    /\ threads[t].i > Len(threads[t].input)
    /\ threads' = [threads EXCEPT ![t] =
          [@ EXCEPT
             !.pc = "done",
             !.result = [kind |-> "report",
                         val |-> build_report(threads[t].input, threads[t].analyses,
                                              threads[t].failed)]]]
    /\ UNCHANGED <<_component_map, constructed_with, call, ret, shared, seen, held>>

\* the caller in thread t takes the result
TakeResult(t) ==
    /\ threads[t].pc = "done"
    /\ threads' = [threads EXCEPT ![t] = ThreadIdle]
    /\ UNCHANGED <<_component_map, constructed_with, call, ret, shared, seen, held>>

NextConcurrent ==
    \/ \E t \in Threads, name \in ConcurrentNames : CallAnalyze(t, name)
    \/ \E t \in Threads, components \in ConcurrentLists :
          CallAnalyzeArchitecture(t, components)
    \/ \E t \in Threads : LoopStep(t)
    \/ \E t \in Threads : Finish(t)
    \/ \E t \in Threads : TakeResult(t)

SpecConcurrent == Init /\ [][NextConcurrent]_vars

(* ------------- an engine whose profile table has gaps ------------- *)

\* the longest list analysed with an incomplete profile table
MaxProfiled == 2

\* the categories whose entry may be absent from the class attribute
\* _CATEGORY_PROFILES of the engine (a subclass or a patch that overrides it)
MissingProfiles == SUBSET {"other", "compute", "storage"}

\* an empty name, a compute key, a storage key and a name no key matches
ProfiledNames == {<<>>, <<"E", "C", "2">>, <<"S", "3">>, <<"_">>}
ProfiledLists == UNION {[1..n -> ProfiledNames] : n \in 0..MaxProfiled}

\* the default engine over a profile table without some of its entries
InitProfiles ==
    /\ module_component_map = _COMPONENT_MAP
    /\ knowledge_base = KNOWLEDGE_BASE
    /\ \E missing \in MissingProfiles :
          category_profiles =
              [category \in ComponentCategory \ missing |-> _CATEGORY_PROFILES[category]]
    /\ _component_map = CategoryClassifier_init(<<>>).map
    /\ constructed_with = <<>>
    /\ call = Idle
    /\ ret = NoResult
    /\ seen = NotSeen
    /\ threads = [t \in Threads |-> ThreadIdle]
    /\ held = NothingHeld

NextProfiles ==
    \/ \E name \in ProfiledNames : Analyze(name)
    \/ \E components \in ProfiledLists : AnalyzeArchitecture(components)
    \/ Return

SpecProfiles == InitProfiles /\ [][NextProfiles]_vars

(* --------------- the properties of a ComponentAnalysis --------------- *)

\* the longest risk list of a hand-built analysis
MaxRisks == 2

\* every risk list of at most MaxRisks risks over the severity strings
BoundedRiskLists ==
    UNION {[1..n -> {Risk(s) : s \in SeverityStrings}] : n \in 0..MaxRisks}

\* analyses built by a caller, as the tests build them
BuiltAnalyses ==
    {ComponentAnalysis(<<"E", "C", "2">>, "compute", "Process", "STRIDE",
                       "description", risks) : risks \in BoundedRiskLists}

\* analysis.risk_count
RiskCount(analysis) ==
    /\ call = Idle
    /\ call' = [op |-> "risk_count", arg |-> analysis]
    /\ ret' = [kind |-> "count", val |-> risk_count(analysis)]
    /\ UNCHANGED <<_component_map, constructed_with, shared, seen, threads, held>>

\* analysis.max_severity
MaxSeverity(analysis) ==
    /\ call = Idle
    /\ call' = [op |-> "max_severity", arg |-> analysis]
    /\ ret' = [kind |-> "severity", val |-> max_severity(analysis)]
    /\ UNCHANGED <<_component_map, constructed_with, shared, seen, threads, held>>

\* analysis.to_dict()
ToDict(analysis) ==
    /\ call = Idle
    /\ call' = [op |-> "to_dict", arg |-> analysis]
    /\ ret' = [kind |-> "dict", val |-> to_dict(analysis)]
    /\ UNCHANGED <<_component_map, constructed_with, shared, seen, threads, held>>

NextAnalysis ==
    \/ \E analysis \in BuiltAnalyses : RiskCount(analysis)
    \/ \E analysis \in BuiltAnalyses : MaxSeverity(analysis)
    \/ \E analysis \in BuiltAnalyses : ToDict(analysis)
    \/ \E components \in ProfiledLists : AnalyzeArchitecture(components)
    \/ Return

SpecAnalysis == Init /\ [][NextAnalysis]_vars

(* ---------------- the legacy engine (stride_engine.py) ---------------- *)

\* The legacy engine only compares names for equality, so its names are plain
\* strings; a text built with the component name in it is the sequence of its
\* parts.

\* StrideEngine.CATEGORY_ANALYZERS: category -> name of the analyzer method
CATEGORY_ANALYZERS ==
       ("compute" :> "_analyze_compute")
    @@ ("database" :> "_analyze_database")
    @@ ("storage" :> "_analyze_storage")
    @@ ("network" :> "_analyze_network")
    @@ ("security" :> "_analyze_security")
    @@ ("api_gateway" :> "_analyze_api_gateway")
    @@ ("messaging" :> "_analyze_messaging")
    @@ ("monitoring" :> "_analyze_monitoring")
    @@ ("identity" :> "_analyze_identity")
    @@ ("ml_ai" :> "_analyze_ml_ai")
    @@ ("devops" :> "_analyze_devops")
    @@ ("serverless" :> "_analyze_serverless")
    @@ ("groups" :> "_analyze_groups")
    @@ ("other" :> "_analyze_other")

\* a table with a component of the category analytics, which the new engine
\* knows and the legacy engine has no analyzer for
COMPONENT_TO_CATEGORY_with_analytics ==
    ("Athena" :> "analytics") @@ ("EC2" :> "compute") @@ ("WAF" :> "security")

\* StrideEngine.COMPONENT_TO_CATEGORY: component name -> category
COMPONENT_TO_CATEGORY ==
       ("EC2" :> "compute")
    @@ ("Lambda" :> "serverless")
    @@ ("EKS" :> "compute")
    @@ ("Fargate" :> "serverless")
    @@ ("Container" :> "compute")
    @@ ("Server" :> "compute")
    @@ ("Vm Scaleset" :> "compute")
    @@ ("Virtual Machine" :> "compute")
    @@ ("Elastic Container Service" :> "compute")
    @@ ("App gateway" :> "api_gateway")
    @@ ("RDS" :> "database")
    @@ ("DynamoDB" :> "database")
    @@ ("Aurora" :> "database")
    @@ ("DocumentDB" :> "database")
    @@ ("ElastiCache" :> "database")
    @@ ("Redis" :> "database")
    @@ ("MySQL" :> "database")
    @@ ("PostgreSQL" :> "database")
    @@ ("Neptune" :> "database")
    @@ ("Redshift" :> "database")
    @@ ("Table" :> "database")
    @@ ("DB" :> "database")
    @@ ("Oracle DB" :> "database")
    @@ ("Mongo DB" :> "database")
    @@ ("Cosmos DB" :> "database")
    @@ ("Memcached" :> "database")
    @@ ("S3" :> "storage")
    @@ ("EBS" :> "storage")
    @@ ("EFS" :> "storage")
    @@ ("Glacier" :> "storage")
    @@ ("Storage Gateway" :> "storage")
    @@ ("File share" :> "storage")
    @@ ("Snowball" :> "storage")
    @@ ("Backup" :> "storage")
    @@ ("DataSync" :> "storage")
    @@ ("Blob Storage" :> "storage")
    @@ ("VPC Router" :> "network")
    @@ ("Internet Gateway" :> "network")
    @@ ("NAT Gateway" :> "network")
    @@ ("Transit Gateway" :> "network")
    @@ ("Direct Connect" :> "network")
    @@ ("Private Link" :> "network")
    @@ ("V-net" :> "network")
    @@ ("Private Subnet" :> "network")
    @@ ("Public Subnet" :> "network")
    @@ ("Availability Zone" :> "groups")
    @@ ("Region" :> "groups")
    @@ ("Endpoint" :> "network")
    @@ ("Network Firewall" :> "security")
    @@ ("Customer Gateway" :> "network")
    @@ ("VP Gateway" :> "network")
    @@ ("IAM" :> "identity")
    @@ ("IAM Role" :> "identity")
    @@ ("Cognito" :> "identity")
    @@ ("WAF" :> "security")
    @@ ("Firewall" :> "security")
    @@ ("Shield" :> "security")
    @@ ("GuardDuty" :> "security")
    @@ ("Inspector Agent" :> "security")
    @@ ("Security Hub" :> "security")
    @@ ("Secrets Manager" :> "security")
    @@ ("Key Management Service" :> "security")
    @@ ("CloudHSM" :> "security")
    @@ ("Certificate Manager" :> "security")
    @@ ("Macie" :> "security")
    @@ ("Detective" :> "security")
    @@ ("Key vault" :> "security")
    @@ ("Security Group" :> "security")
    @@ ("Firewall Manager" :> "security")
    @@ ("Config" :> "monitoring")
    @@ ("Trusted Advisor" :> "monitoring")
    @@ ("API-Gateway" :> "api_gateway")
    @@ ("Appsync" :> "api_gateway")
    @@ ("ALB" :> "api_gateway")
    @@ ("ELB" :> "api_gateway")
    @@ ("Cloudfront" :> "api_gateway")
    @@ ("CDN" :> "api_gateway")
    @@ ("Route53" :> "network")
    @@ ("Cloud Map" :> "network")
    @@ ("Distribution" :> "api_gateway")
    @@ ("Edge Location" :> "api_gateway")
    @@ ("SQS" :> "messaging")
    @@ ("SNS" :> "messaging")
    @@ ("EventBridge" :> "messaging")
    @@ ("Event Bus" :> "messaging")
    @@ ("MQ" :> "messaging")
    @@ ("Kinesis Data Streams" :> "messaging")
    @@ ("Step Function" :> "serverless")
    @@ ("Cloud Watch" :> "monitoring")
    @@ ("CloudWatch Alarm" :> "monitoring")
    @@ ("Cloud Trail" :> "monitoring")
    @@ ("X-Ray" :> "monitoring")
    @@ ("Azure monitor" :> "monitoring")
    @@ ("Grafana" :> "monitoring")
    @@ ("Prometheus" :> "monitoring")
    @@ ("Flow logs" :> "monitoring")
    @@ ("AAD" :> "identity")
    @@ ("Active Directory Service" :> "identity")
    @@ ("Sign-On" :> "identity")
    @@ ("Users" :> "identity")
    @@ ("Client" :> "other")
    @@ ("Sagemaker" :> "ml_ai")
    @@ ("Rekognition" :> "ml_ai")
    @@ ("Comprehend" :> "ml_ai")
    @@ ("Lex" :> "ml_ai")
    @@ ("Textract" :> "ml_ai")
    @@ ("Transcribe" :> "ml_ai")
    @@ ("Translate" :> "ml_ai")
    @@ ("Machine Learning" :> "ml_ai")
    @@ ("Notebook" :> "ml_ai")
    @@ ("CodePipeline" :> "devops")
    @@ ("CodeBuild" :> "devops")
    @@ ("CodeCommit" :> "devops")
    @@ ("CodeDeploy" :> "devops")
    @@ ("Jenkins" :> "devops")
    @@ ("Github" :> "devops")
    @@ ("Git" :> "devops")
    @@ ("Docker Image" :> "devops")
    @@ ("Image Builder" :> "devops")
    @@ ("CloudFormation Stack" :> "devops")
    @@ ("Terraform" :> "devops")
    @@ ("Deploy Stage" :> "devops")
    @@ ("Build Environment" :> "devops")
    @@ ("Amplify" :> "serverless")
    @@ ("AppFlow" :> "serverless")
    @@ ("groups" :> "groups")

\* StrideEngine._analyze_compute(component)
_analyze_compute(component) ==
    [component |-> component,
     category |-> "Compute",
     description |-> "Recursos de processamento (VMs, containers, instancias)",
     risks |-> <<
          [type |-> "Spoofing", threat |-> "S - Falsificacao de Identidade",
           detail |-> "Acesso nao autorizado via credenciais vazadas ou chaves SSH expostas.",
           mitigation |-> "Usar AWS Session Manager ou Azure Bastion. Desabilitar acesso SSH direto.",
           severity |-> "HIGH"],
          [type |-> "Tampering", threat |-> "T - Adulteracao",
           detail |-> "Modificacao nao autorizada de binarios ou configuracoes.",
           mitigation |-> "Implementar File Integrity Monitoring (FIM). Usar imagens imutaveis.",
           severity |-> "MEDIUM"],
          [type |-> "Elevation of Privilege", threat |-> "E - Elevacao de Privilegio",
           detail |-> <<"Instancia ", component, " com IAM Roles permissivas demais.">>,
           mitigation |-> "Aplicar principio do privilegio minimo. Usar IAM Access Analyzer.",
           severity |-> "HIGH"],
          [type |-> "Denial of Service", threat |-> "D - Negacao de Servico",
           detail |-> "Esgotamento de recursos (CPU, memoria, disco).",
           mitigation |-> "Configurar Auto Scaling, limites de recursos e alarmes CloudWatch.",
           severity |-> "MEDIUM"] >>]

\* StrideEngine._analyze_database(component)
_analyze_database(component) ==
    [component |-> component,
     category |-> "Database",
     description |-> "Sistemas de armazenamento de dados estruturados",
     risks |-> <<
          [type |-> "Information Disclosure", threat |-> "I - Vazamento de Informacoes",
           detail |-> "Dados sensiveis em repouso podem ser acessados se o armazenamento for comprometido.",
           mitigation |-> "Habilitar criptografia em repouso (TDE/KMS). Usar Customer Managed Keys.",
           severity |-> "CRITICAL"],
          [type |-> "Tampering", threat |-> "T - Adulteracao",
           detail |-> "SQL Injection ou modificacao direta de dados via aplicacao comprometida.",
           mitigation |-> "Usar Prepared Statements/ORM. Habilitar audit logs e backups automaticos.",
           severity |-> "HIGH"],
          [type |-> "Spoofing", threat |-> "S - Falsificacao de Identidade",
           detail |-> "Conexoes nao autenticadas ao banco de dados.",
           mitigation |-> "Habilitar SSL/TLS obrigatorio. Usar IAM Database Authentication quando disponivel.",
           severity |-> "HIGH"],
          [type |-> "Denial of Service", threat |-> "D - Negacao de Servico",
           detail |-> "Queries pesadas ou conexoes excessivas esgotando recursos.",
           mitigation |-> "Configurar connection pooling, query timeout e read replicas.",
           severity |-> "MEDIUM"] >>]

\* StrideEngine._analyze_storage(component)
_analyze_storage(component) ==
    [component |-> component,
     category |-> "Storage",
     description |-> "Armazenamento de objetos, arquivos e backups",
     risks |-> <<
          [type |-> "Information Disclosure", threat |-> "I - Vazamento de Informacoes",
           detail |-> <<"Bucket/Storage ", component, " pode estar configurado como publico inadvertidamente.">>,
           mitigation |-> "Habilitar 'Block Public Access'. Usar bucket policies restritivas. Auditar com Access Analyzer.",
           severity |-> "CRITICAL"],
          [type |-> "Tampering", threat |-> "T - Adulteracao",
           detail |-> "Dados podem ser modificados ou deletados sem protecao.",
           mitigation |-> "Habilitar Versionamento, MFA Delete e Object Lock para dados criticos.",
           severity |-> "HIGH"],
          [type |-> "Repudiation", threat |-> "R - Repudio",
           detail |-> "Falta de logs de acesso dificulta auditoria e investigacao.",
           mitigation |-> "Habilitar Server Access Logging e CloudTrail Data Events.",
           severity |-> "MEDIUM"] >>]

\* StrideEngine._analyze_network(component)
_analyze_network(component) ==
    [component |-> component,
     category |-> "Network",
     description |-> "Componentes de infraestrutura de rede",
     risks |-> <<
          [type |-> "Information Disclosure", threat |-> "I - Vazamento de Informacoes",
           detail |-> "Trafego de rede nao criptografado pode ser interceptado.",
           mitigation |-> "Forcar TLS 1.2+ em todo trafego. Usar VPN/PrivateLink para conexoes sensiveis.",
           severity |-> "HIGH"],
          [type |-> "Spoofing", threat |-> "S - Falsificacao de Identidade",
           detail |-> "Ataques de ARP spoofing ou DNS poisoning na rede.",
           mitigation |-> "Usar VPC Flow Logs. Habilitar DNS firewall. Segmentar redes adequadamente.",
           severity |-> "MEDIUM"],
          [type |-> "Denial of Service", threat |-> "D - Negacao de Servico",
           detail |-> "Ataques DDoS podem saturar a largura de banda.",
           mitigation |-> "Usar AWS Shield, CloudFront e WAF. Configurar rate limiting.",
           severity |-> "HIGH"] >>]

\* StrideEngine._analyze_security(component)
_analyze_security(component) ==
    [component |-> component,
     category |-> "Security Control",
     description |-> "Controle de seguranca ativo na arquitetura",
     note |-> " Componente de protecao detectado! Verifique se as regras estao atualizadas.",
     risks |-> <<
          [type |-> "Misconfiguration", threat |-> "Configuracao Incorreta",
           detail |-> "Regras desatualizadas ou permissivas podem anular a protecao.",
           mitigation |-> "Revisar regras regularmente. Usar managed rules quando disponivel.",
           severity |-> "MEDIUM"] >>]

\* StrideEngine._analyze_api_gateway(component)
_analyze_api_gateway(component) ==
    [component |-> component,
     category |-> "API Gateway",
     description |-> "Ponto de entrada para APIs e servicos",
     risks |-> <<
          [type |-> "Denial of Service", threat |-> "D - Negacao de Servico",
           detail |-> "Sobrecarga de requisicoes na API sem controle de taxa.",
           mitigation |-> "Implementar throttling, rate limiting e usage plans.",
           severity |-> "HIGH"],
          [type |-> "Spoofing", threat |-> "S - Falsificacao de Identidade",
           detail |-> "APIs publicas sem autenticacao adequada.",
           mitigation |-> "Usar Cognito/OAuth2 Authorizers. Implementar mTLS para APIs internas.",
           severity |-> "CRITICAL"],
          [type |-> "Information Disclosure", threat |-> "I - Vazamento de Informacoes",
           detail |-> "Logs de API podem expor dados sensiveis.",
           mitigation |-> "Mascarar dados sensiveis em logs. Usar encryption at rest nos logs.",
           severity |-> "MEDIUM"],
          [type |-> "Tampering", threat |-> "T - Adulteracao",
           detail |-> "Requisicoes podem ser manipuladas em transito.",
           mitigation |-> "Forcar HTTPS. Validar input rigorosamente. Usar request signing.",
           severity |-> "HIGH"] >>]

\* StrideEngine._analyze_messaging(component)
_analyze_messaging(component) ==
    [component |-> component,
     category |-> "Messaging",
     description |-> "Servicos de filas e eventos assincronos",
     risks |-> <<
          [type |-> "Information Disclosure", threat |-> "I - Vazamento de Informacoes",
           detail |-> "Mensagens em filas podem conter dados sensiveis nao criptografados.",
           mitigation |-> "Habilitar SSE-KMS em filas/topicos. Criptografar payload em nivel de aplicacao.",
           severity |-> "HIGH"],
          [type |-> "Tampering", threat |-> "T - Adulteracao",
           detail |-> "Mensagens podem ser injetadas ou modificadas por atacantes.",
           mitigation |-> "Usar Dead Letter Queues. Validar schema das mensagens. Implementar signing.",
           severity |-> "MEDIUM"],
          [type |-> "Denial of Service", threat |-> "D - Negacao de Servico",
           detail |-> "Poison messages podem bloquear consumers.",
           mitigation |-> "Configurar DLQ, visibility timeout e max receive count adequados.",
           severity |-> "MEDIUM"] >>]

\* StrideEngine._analyze_monitoring(component)
_analyze_monitoring(component) ==
    [component |-> component,
     category |-> "Monitoring",
     description |-> "Servico de monitoramento e observabilidade",
     note |-> " Componente de observabilidade detectado! Essencial para deteccao de incidentes.",
     risks |-> <<
          [type |-> "Information Disclosure", threat |-> "I - Vazamento de Informacoes",
           detail |-> "Logs podem inadvertidamente registrar dados sensiveis (senhas, tokens).",
           mitigation |-> "Implementar log redaction. Criptografar logs com CMK. Restringir acesso.",
           severity |-> "MEDIUM"],
          [type |-> "Tampering", threat |-> "T - Adulteracao",
           detail |-> "Atacantes podem tentar apagar logs para cobrir rastros.",
           mitigation |-> "Usar S3 Object Lock para logs. Enviar para conta separada de auditoria.",
           severity |-> "HIGH"] >>]

\* StrideEngine._analyze_identity(component)
_analyze_identity(component) ==
    [component |-> component,
     category |-> "Identity",
     description |-> "Gerenciamento de identidades e acessos",
     risks |-> <<
          [type |-> "Elevation of Privilege", threat |-> "E - Elevacao de Privilegio",
           detail |-> "Politicas IAM permissivas demais podem permitir escalacao de privilegios.",
           mitigation |-> "Usar IAM Access Analyzer. Aplicar least privilege. Revisar regularmente.",
           severity |-> "CRITICAL"],
          [type |-> "Spoofing", threat |-> "S - Falsificacao de Identidade",
           detail |-> "Credenciais de longa duracao podem ser comprometidas.",
           mitigation |-> "Habilitar MFA obrigatorio. Usar roles temporarias. Rotacionar chaves.",
           severity |-> "CRITICAL"],
          [type |-> "Repudiation", threat |-> "R - Repudio",
           detail |-> "Acoes administrativas sem trilha de auditoria.",
           mitigation |-> "Habilitar CloudTrail em todas as regioes. Usar Organization Trail.",
           severity |-> "HIGH"] >>]

\* StrideEngine._analyze_ml_ai(component)
_analyze_ml_ai(component) ==
    [component |-> component,
     category |-> "ML/AI",
     description |-> "Servicos de inteligencia artificial e machine learning",
     risks |-> <<
          [type |-> "Information Disclosure", threat |-> "I - Vazamento de Informacoes",
           detail |-> "Dados de treinamento podem conter informacoes sensiveis.",
           mitigation |-> "Anonimizar dados de treino. Usar VPC endpoints. Criptografar modelos.",
           severity |-> "HIGH"],
          [type |-> "Tampering", threat |-> "T - Adulteracao",
           detail |-> "Ataques de data poisoning podem comprometer a integridade do modelo.",
           mitigation |-> "Validar fontes de dados. Versionar modelos. Monitorar drift.",
           severity |-> "MEDIUM"] >>]

\* StrideEngine._analyze_devops(component)
_analyze_devops(component) ==
    [component |-> component,
     category |-> "DevOps",
     description |-> "Ferramentas de CI/CD e automacao",
     risks |-> <<
          [type |-> "Elevation of Privilege", threat |-> "E - Elevacao de Privilegio",
           detail |-> "Pipelines CI/CD geralmente tem permissoes elevadas para deploy.",
           mitigation |-> "Usar roles especificas por stage. Requerer aprovacao para producao.",
           severity |-> "CRITICAL"],
          [type |-> "Tampering", threat |-> "T - Adulteracao",
           detail |-> "Codigo malicioso pode ser injetado no pipeline.",
           mitigation |-> "Habilitar branch protection. Requerer code review. Assinar commits.",
           severity |-> "HIGH"],
          [type |-> "Information Disclosure", threat |-> "I - Vazamento de Informacoes",
           detail |-> "Secrets podem ser expostos em logs de build.",
           mitigation |-> "Usar Secrets Manager. Nunca hardcode secrets. Mascarar em logs.",
           severity |-> "HIGH"] >>]

\* StrideEngine._analyze_serverless(component)
_analyze_serverless(component) ==
    [component |-> component,
     category |-> "Serverless",
     description |-> "Funcoes e servicos serverless",
     risks |-> <<
          [type |-> "Elevation of Privilege", threat |-> "E - Elevacao de Privilegio",
           detail |-> "Funcoes Lambda com IAM Role permissiva.",
           mitigation |-> "Aplicar least privilege por funcao. Usar Resource-based policies.",
           severity |-> "HIGH"],
          [type |-> "Denial of Service", threat |-> "D - Negacao de Servico",
           detail |-> "Execucao recursiva ou loop infinito pode esgotar concurrency.",
           mitigation |-> "Configurar reserved concurrency. Definir timeout adequado.",
           severity |-> "MEDIUM"],
          [type |-> "Information Disclosure", threat |-> "I - Vazamento de Informacoes",
           detail |-> "Environment variables podem expor secrets.",
           mitigation |-> "Usar Secrets Manager/Parameter Store. Criptografar variaveis com CMK.",
           severity |-> "HIGH"] >>]

\* StrideEngine._analyze_groups(component)
_analyze_groups(component) ==
    [component |-> component,
     category |-> "Trust Boundary",
     description |-> "Agrupamento logico ou boundary de confianca",
     risks |-> <<
          [type |-> "Elevation of Privilege", threat |-> "E - Elevacao de Privilegio",
           detail |-> "Mistura de recursos com diferentes niveis de confianca no mesmo boundary.",
           mitigation |-> "Segmentar recursos publicos e privados em subnets/VPCs separadas.",
           severity |-> "HIGH"],
          [type |-> "Information Disclosure", threat |-> "I - Vazamento de Informacoes",
           detail |-> "Security Groups herdados podem permitir acesso nao intencional.",
           mitigation |-> "Auditar Security Groups. Usar VPC Flow Logs. Aplicar segmentacao.",
           severity |-> "MEDIUM"] >>,
     note |-> " Boundary detectado. Verifique se ha segregacao adequada entre niveis de confianca."]

\* StrideEngine._analyze_other(component)
_analyze_other(component) ==
    [component |-> component,
     category |-> "Uncategorized",
     description |-> "Componente nao categorizado",
     note |-> <<"i O componente '", component, "' foi detectado mas nao possui regras STRIDE especificas.">>,
     risks |-> <<
          [type |-> "Unknown", threat |-> "Analise Manual Requerida",
           detail |-> "Este componente requer analise de seguranca manual.",
           mitigation |-> "Consulte a documentacao de seguranca do servico especifico.",
           severity |-> "LOW"] >>]


\* getattr(self, method)(component)
call_analyzer(method, component) ==
    CASE method = "_analyze_compute" -> _analyze_compute(component)
      [] method = "_analyze_database" -> _analyze_database(component)
      [] method = "_analyze_storage" -> _analyze_storage(component)
      [] method = "_analyze_network" -> _analyze_network(component)
      [] method = "_analyze_security" -> _analyze_security(component)
      [] method = "_analyze_api_gateway" -> _analyze_api_gateway(component)
      [] method = "_analyze_messaging" -> _analyze_messaging(component)
      [] method = "_analyze_monitoring" -> _analyze_monitoring(component)
      [] method = "_analyze_identity" -> _analyze_identity(component)
      [] method = "_analyze_ml_ai" -> _analyze_ml_ai(component)
      [] method = "_analyze_devops" -> _analyze_devops(component)
      [] method = "_analyze_serverless" -> _analyze_serverless(component)
      [] method = "_analyze_groups" -> _analyze_groups(component)
      [] method = "_analyze_other" -> _analyze_other(component)

\* StrideEngine._build_knowledge_base(): self.knowledge_base, a copy of
\* COMPONENT_TO_CATEGORY made by __init__ and never written again
_build_knowledge_base ==
    [component \in DOMAIN COMPONENT_TO_CATEGORY |-> COMPONENT_TO_CATEGORY[component]]

\* StrideEngine.analyze_component(component_name) of the legacy engine
analyze_component(component_name) ==
    IF component_name \in DOMAIN CATEGORY_ANALYZERS
    THEN Some(call_analyzer(CATEGORY_ANALYZERS[component_name], component_name))
    ELSE LET legacy_knowledge_base == _build_knowledge_base
         IN  IF /\ component_name \in DOMAIN legacy_knowledge_base
                /\ legacy_knowledge_base[component_name] # ""
                /\ legacy_knowledge_base[component_name] \in DOMAIN CATEGORY_ANALYZERS
             THEN LET category == legacy_knowledge_base[component_name]
                      result == call_analyzer(CATEGORY_ANALYZERS[category], component_name)
                  IN  Some([result EXCEPT !.component = component_name])
             ELSE None

\* analysis.get('risks') or analysis.get('stride') or []
get_risks(analysis) ==
    IF "risks" \in DOMAIN analysis /\ Len(analysis.risks) > 0 THEN analysis.risks
    ELSE IF "stride" \in DOMAIN analysis /\ Len(analysis.stride) > 0 THEN analysis.stride
    ELSE <<>>

\* the loop of the legacy analyze_architecture over components[i..]
RECURSIVE legacy_loop(_, _, _, _, _)
legacy_loop(components, i, analyses, security_controls, n_risks) ==
    IF i > Len(components)
    THEN [analyses |-> analyses, security_controls |-> security_controls,
          risk_count |-> n_risks]
    ELSE LET analysis == analyze_component(components[i])
         IN  IF analysis.kind # "analysis"
             THEN legacy_loop(components, i + 1, analyses, security_controls, n_risks)
             ELSE legacy_loop(components, i + 1, Append(analyses, analysis.val),
                     IF "category" \in DOMAIN analysis.val
                        /\ analysis.val.category = "Security Control"
                     THEN Append(security_controls, components[i])
                     ELSE security_controls,
                     n_risks + Len(get_risks(analysis.val)))

max(a, b) == IF a >= b THEN a ELSE b

\* max(0, min(1, n_risks / max(len(components), 1) - security_bonus)) with
\* security_bonus = len(security_controls) * 0.1, as the exact fraction
\* num / den
legacy_risk_score(n_risks, components, security_controls) ==
    LET den == 10 * max(Len(components), 1)
        num == 10 * n_risks - Len(security_controls) * max(Len(components), 1)
    IN  [num |-> max(0, min(den, num)), den |-> den]

\* StrideEngine._get_risk_level(score) of the legacy engine, score = num / den
legacy_get_risk_level(score) ==
    IF 10 * score.num < 3 * score.den THEN "LOW"
    ELSE IF 10 * score.num < 6 * score.den THEN "MEDIUM"
    ELSE IF 10 * score.num < 8 * score.den THEN "HIGH"
    ELSE "CRITICAL"

\* StrideEngine.analyze_architecture(components) of the legacy engine; the
\* reported risk_score, round(risk_score, 2), is a number of hundredths
legacy_analyze_architecture(components) ==
    LET done == legacy_loop(components, 1, <<>>, <<>>, 0)
        risk_score == legacy_risk_score(done.risk_count, components,
                                        done.security_controls)
    IN  [total_components |-> Len(components),
         analyzed_components |-> Len(done.analyses),
         total_risks |-> done.risk_count,
         security_controls |-> done.security_controls,
         risk_score |-> round_half_even(risk_score.num * 100, risk_score.den),
         risk_level |-> legacy_get_risk_level(risk_score),
         analyses |-> done.analyses]

\* the most copies of one name in a list given to the legacy engine
MaxCopies == 19

\* names given to analyze_component: every key of the two tables, and names
\* that are keys of neither
LegacyNames ==
    DOMAIN CATEGORY_ANALYZERS \cup DOMAIN COMPONENT_TO_CATEGORY
        \cup {"", "ec2", "Athena", "analytics", "UnknownWidget"}

\* n copies of name
Copies(name, n) == [i \in 1..n |-> name]

\* names of the lists: one risk and no bonus, one risk and a bonus, unknown
LegacyArchNames == {"Client", "WAF", "UnknownWidget"}

\* lists of copies of one name followed by copies of another
LegacyLists ==
    {Copies(x, a) \o Copies(y, b) :
        x \in LegacyArchNames, y \in LegacyArchNames, a \in 0..MaxCopies, b \in 0..MaxCopies}

\* legacy_engine.analyze_component(name)
LegacyAnalyzeComponent(name) ==
    /\ call = Idle
    /\ call' = [op |-> "analyze_component", arg |-> name]
    /\ ret' = analyze_component(name)
    /\ UNCHANGED <<_component_map, constructed_with, shared, seen, threads, held>>

\* legacy_engine.analyze_architecture(components)
LegacyAnalyzeArchitecture(components) ==
    /\ call = Idle
    /\ call' = [op |-> "legacy_analyze_architecture", arg |-> components]
    /\ ret' = [kind |-> "report", val |-> legacy_analyze_architecture(components)]
    /\ UNCHANGED <<_component_map, constructed_with, shared, seen, threads, held>>

NextLegacy ==
    \/ \E name \in LegacyNames : LegacyAnalyzeComponent(name)
    \/ \E components \in LegacyLists : LegacyAnalyzeArchitecture(components)
    \/ Return

SpecLegacy == Init /\ [][NextLegacy]_vars

(* --------------- DetectionResult (detection/detector.py) --------------- *)

\* the most detections of a result
MaxDetections == 3

\* the dataclass Detection; a confidence is a number of hundredths
Detection(class_name, confidence, bbox) ==
    [class_name |-> class_name, confidence |-> confidence, bbox |-> bbox]

\* the dataclass DetectionResult, without an image
DetectionResult(detections) ==
    [detections |-> detections, image_path |-> "None", annotated_image |-> "None"]

\* detections of three classes, two of them of the same class and box
Detections ==
    {Detection(<<"E", "C", "2">>, 90, <<0, 0, 1, 1>>),
     Detection(<<"E", "C", "2">>, 80, <<2, 2, 3, 3>>),
     Detection(<<"R", "D", "S">>, 70, <<4, 4, 5, 5>>),
     Detection(<<"S", "3">>, 70, <<4, 4, 5, 5>>)}

DetectionResults ==
    {DetectionResult(detections) :
        detections \in UNION {[1..n -> Detections] : n \in 0..MaxDetections}}

\* the lists that list(s) can be for the set s: its elements once each, in an
\* order that the set's hashing decides
list_of_set(s) ==
    {order \in [1..Cardinality(s) -> s] : \A x \in s : \E i \in 1..Cardinality(s) : order[i] = x}

\* component_names without the set: the class name of every detection
component_names_with_repeats(result) ==
    {[i \in 1..Len(result.detections) |-> result.detections[i].class_name]}

\* DetectionResult.component_names: the values it can return
component_names(result) ==
    list_of_set({result.detections[i].class_name : i \in 1..Len(result.detections)})

\* DetectionResult.count
count(result) == Len(result.detections)

\* result.component_names
ComponentNames(result) ==
    /\ call = Idle
    /\ call' = [op |-> "component_names", arg |-> result]
    /\ \E names \in component_names(result) : ret' = [kind |-> "names", val |-> names]
    /\ UNCHANGED <<_component_map, constructed_with, shared, seen, threads, held>>

\* result.count
Count(result) ==
    /\ call = Idle
    /\ call' = [op |-> "count", arg |-> result]
    /\ ret' = [kind |-> "count", val |-> count(result)]
    /\ UNCHANGED <<_component_map, constructed_with, shared, seen, threads, held>>

NextDetection ==
    \/ \E result \in DetectionResults : ComponentNames(result)
    \/ \E result \in DetectionResults : Count(result)
    \/ Return

SpecDetection == Init /\ [][NextDetection]_vars

(* ------------- the risks list of a returned analysis ------------- *)

\* the most analyses a caller keeps at a time
MaxHeld == 2

\* two names of the category compute and one of the category storage
OwnedNames == {<<"E", "C", "2">>, <<"s">>, <<"S", "3">>}

\* risks=threats: the analysis refers to the threat list of the knowledge base
list_copy_alias(lists, threats) ==
    [lists |-> lists, ref |-> [kind |-> "shared", at |-> threats]]

\* risks=list(threats): a new list object with the elements of the threat
\* list, and the reference to it
list_copy(lists, threats) ==
    [lists |-> Append(lists, knowledge_base[threats]),
     ref |-> [kind |-> "own", at |-> Len(lists) + 1]]

\* the list a reference refers to
deref(lists, ref) ==
    IF ref.kind = "own" THEN lists[ref.at] ELSE knowledge_base[ref.at]

\* what a caller can do to a list: append an element, remove the last one,
\* reverse the order
Edits == {"append", "pop", "reverse"}

edit_list(l, edit) ==
    CASE edit = "append" -> Append(l, Risk("LOW"))
      [] edit = "pop" -> IF Len(l) = 0 THEN l ELSE SubSeq(l, 1, Len(l) - 1)
      [] edit = "reverse" -> [i \in 1..Len(l) |-> l[Len(l) + 1 - i]]

\* engine.analyze(name), whose result the caller keeps: the analysis with the
\* reference to its risks list
AnalyzeAndKeep(name) ==
    /\ call = Idle
    /\ Len(held.analyses) < MaxHeld
    /\ call' = [op |-> "analyze", arg |-> name]
    /\ LET result == analyze(_component_map, name)
       IN  /\ result.kind = "analysis"
           /\ ret' = result
           /\ LET made == IF result.val.category \in DOMAIN category_profiles
                          THEN list_copy(held.lists,
                                         category_profiles[result.val.category].threats)
                          ELSE [lists |-> Append(held.lists, result.val.risks),
                                ref |-> [kind |-> "own", at |-> Len(held.lists) + 1]]
              IN  held' = [analyses |-> Append(held.analyses,
                                          [component |-> result.val.component,
                                           category |-> result.val.category,
                                           risks |-> made.ref,
                                           edited |-> FALSE]),
                           lists |-> made.lists]
    /\ UNCHANGED <<_component_map, constructed_with, shared, seen, threads>>

\* the caller edits the risks list of the k-th analysis it keeps; the edit
\* lands in the object that list is
EditRisks(k, edit) ==
    /\ call = Idle
    /\ k \in 1..Len(held.analyses)
    /\ ~held.analyses[k].edited
    /\ LET ref == held.analyses[k].risks
           analyses == [held.analyses EXCEPT ![k].edited = TRUE]
       IN  IF ref.kind = "own"
           THEN /\ held' = [analyses |-> analyses,
                            lists |-> [held.lists EXCEPT ![ref.at] = edit_list(@, edit)]]
                /\ UNCHANGED shared
           ELSE /\ held' = [analyses |-> analyses, lists |-> held.lists]
                /\ knowledge_base' = [knowledge_base EXCEPT ![ref.at] = edit_list(@, edit)]
                /\ UNCHANGED <<module_component_map, category_profiles>>
    /\ UNCHANGED <<_component_map, constructed_with, call, ret, seen, threads>>

\* the caller lets go of the analyses it keeps
Release ==
    /\ call = Idle
    /\ held # NothingHeld
    /\ held' = NothingHeld
    /\ UNCHANGED <<_component_map, constructed_with, call, ret, shared, seen, threads>>

NextOwnership ==
    \/ \E name \in OwnedNames : AnalyzeAndKeep(name)
    \/ \E k \in 1..MaxHeld, edit \in Edits : EditRisks(k, edit)
    \/ Release
    \/ Return

SpecOwnership == Init /\ [][NextOwnership]_vars

(* ------------------------------- claims ------------------------------- *)

\* s is empty or consists of whitespace only
Blank(s) == \A i \in 1..Len(s) : s[i] \in Whitespace

\* the case-insensitive containment of the partial match, either way
KeyMatches(key, name) ==
    \/ Contains(lower(key), lower(name))
    \/ Contains(lower(name), lower(key))

\* the positions of the table whose key is name, and whose key matches name
ExactAt(map, name) == {i \in 1..Len(map) : map[i][1] = name}
MatchesAt(map, name) == {i \in 1..Len(map) : KeyMatches(map[i][1], name)}

\* the level the thresholds 75 / 50 / 25 give a score in tenths
LevelOf(score) ==
    CASE score >= 750 -> "CRITICAL"
      [] score < 750 /\ score >= 500 -> "HIGH"
      [] score < 500 /\ score >= 250 -> "MEDIUM"
      [] score < 250 -> "LOW"

\* C1: the report of analyze_architecture has total_components = length of
\* the input, analyzed = length of components, and
\* total_components = analyzed + length of failed.
C1_ReportCounts ==
    call.op = "analyze_architecture" =>
        /\ ret.val.total_components = Len(call.arg)
        /\ ret.val.analyzed = Len(ret.val.components)
        /\ ret.val.total_components = ret.val.analyzed + Len(ret.val.failed)

\* a report of three names, one of them blank
C1_Witness ==
    /\ call.op = "analyze_architecture"
    /\ Len(call.arg) = 3
    /\ ret.val.analyzed = 2
    /\ Len(ret.val.failed) = 1

\* the risks of a list of analyses that carry the severity s
RisksOf(analyses, s) ==
    {p \in UNION {{<<i, j>> : j \in 1..Len(analyses[i].risks)} : i \in 1..Len(analyses)} :
        analyses[p[1]].risks[p[2]].severity = s}

\* the weighted total: CRITICAL 10, HIGH 7, MEDIUM 4, LOW 1, anything else 0
WeightedTotal(analyses) ==
    10 * Cardinality(RisksOf(analyses, "CRITICAL"))
    + 7 * Cardinality(RisksOf(analyses, "HIGH"))
    + 4 * Cardinality(RisksOf(analyses, "MEDIUM"))
    + Cardinality(RisksOf(analyses, "LOW"))

\* r tenths is num / den * 100 rounded to one decimal (a tie to the even tenth)
IsRounded(r, num, den) ==
    LET twice == 2 * (r * den - num * 1000)
        dist == IF twice < 0 THEN 0 - twice ELSE twice
    IN  dist <= den /\ (dist = den => r % 2 = 0)

\* C2: for a non-empty list of n analyses _calculate_risk_score returns
\* min(round(total / (n * 3 * 10) * 100, 1), 100.0), total being the sum of the
\* weights CRITICAL=10, HIGH=7, MEDIUM=4, LOW=1 and 0 for any other severity;
\* for the empty list it returns 0.0.
C2_RiskScoreFormula ==
    call.op = "_calculate_risk_score" =>
        LET n == Len(call.arg)
            total == WeightedTotal(call.arg)
        IN  IF n = 0 THEN ret.val = 0
            ELSE \E r \in 0..(total * 40) :
                    /\ IsRounded(r, total, n * 3 * 10)
                    /\ ret.val = IF r <= 1000 THEN r ELSE 1000

\* two analyses, one with a severity that has no weight, and a score that is
\* neither 0.0 nor the cap
C2_Witness ==
    /\ call.op = "_calculate_risk_score"
    /\ Len(call.arg) = 2
    /\ RisksOf(call.arg, "INFO") # {}
    /\ RisksOf(call.arg, "HIGH") # {}
    /\ ret.val \notin {0, 1000}

\* C3: _get_risk_level returns CRITICAL for score >= 75, HIGH for
\* 50 <= score < 75, MEDIUM for 25 <= score < 50 and LOW below 25; 75.0 gives
\* CRITICAL and 74.9 HIGH, 50.0 HIGH and 49.9 MEDIUM, 25.0 MEDIUM and 24.9 LOW.
C3_RiskLevelThresholds ==
    call.op = "_get_risk_level" =>
        /\ ret.val = "CRITICAL" <=> call.arg >= 750
        /\ ret.val = "HIGH" <=> (500 <= call.arg /\ call.arg < 750)
        /\ ret.val = "MEDIUM" <=> (250 <= call.arg /\ call.arg < 500)
        /\ ret.val = "LOW" <=> call.arg < 250
        /\ call.arg = 750 => ret.val = "CRITICAL"
        /\ call.arg = 749 => ret.val = "HIGH"
        /\ call.arg = 500 => ret.val = "HIGH"
        /\ call.arg = 499 => ret.val = "MEDIUM"
        /\ call.arg = 250 => ret.val = "MEDIUM"
        /\ call.arg = 249 => ret.val = "LOW"

\* the call _get_risk_level(74.9), which returns HIGH
C3_Witness ==
    /\ call.op = "_get_risk_level"
    /\ call.arg = 749
    /\ ret.val = "HIGH"

\* C4: in every report of analyze_architecture, risk_level is the level the
\* thresholds (>=75 CRITICAL, >=50 HIGH, >=25 MEDIUM, else LOW) give the
\* risk_score of the same report.
C4_LevelMatchesScore ==
    call.op = "analyze_architecture" =>
        ret.val.risk_level = LevelOf(ret.val.risk_score)

\* a report whose score is exactly 75.0
C4_Witness ==
    /\ call.op = "analyze_architecture"
    /\ ret.val.risk_score = 750
    /\ ret.val.risk_level = "CRITICAL"

\* C5: for every string and every constructed classifier, with or without
\* custom mappings, classify returns a member of the 15-value enumeration
\* ComponentCategory (and does not raise).
C5_ClassifyTotal ==
    /\ Cardinality(ComponentCategory) = 15
    /\ call.op = "classify" =>
        /\ ret.kind = "category"
        /\ ret.val \in ComponentCategory

\* a classifier constructed with custom mappings classifies a name that its
\* custom entry decides
C5_Witness ==
    /\ call.op = "classify"
    /\ constructed_with # <<>>
    /\ \E i \in 1..Len(constructed_with) :
          /\ constructed_with[i][1] = call.arg
          /\ ~dict_contains(_COMPONENT_MAP, call.arg)
          /\ ret.val = constructed_with[i][2]

\* C6: for every empty or whitespace-only string, classify returns other and
\* analyze returns None; analyze returns None for no other input.
C6_BlankIsOtherAndNone ==
    /\ (call.op = "classify" /\ Blank(call.arg)) => ret.val = "other"
    /\ call.op = "analyze" => (ret.kind = "None" <=> Blank(call.arg))

\* analyze of a string of two spaces returns None
C6_Witness ==
    /\ call.op = "analyze"
    /\ call.arg = <<" ", " ">>
    /\ ret.kind = "None"

\* C7: for a non-blank input that is exactly (case-sensitively) a key of the
\* classifier's table, classify returns that key's category, even when an
\* earlier key matches the input partially and maps to another category.
C7_ExactMatchWins ==
    (call.op = "classify" /\ ~Blank(call.arg)) =>
        \A i \in ExactAt(_component_map, call.arg) :
            ret.val = _component_map[i][2]

\* the input is a key, and an earlier key of another category matches it
C7_Witness ==
    /\ call.op = "classify"
    /\ ~Blank(call.arg)
    /\ \E i \in ExactAt(_component_map, call.arg) :
          /\ ret.val = _component_map[i][2]
          /\ \E j \in MatchesAt(_component_map, call.arg) :
                j < i /\ _component_map[j][2] # _component_map[i][2]

\* C8: for a non-blank input with no exact key match, classify returns the
\* category of the first key, in insertion order, whose lowercased form is
\* contained in the lowercased input or contains it; later matching keys
\* never decide ("Amazon S3 Bucket" yields storage through the key "S3").
C8_FirstPartialMatchWins ==
    (call.op = "classify" /\ ~Blank(call.arg)
        /\ ExactAt(_component_map, call.arg) = {}) =>
        LET hits == MatchesAt(_component_map, call.arg)
        IN  /\ \A i \in hits :
                  (\A j \in hits : i <= j) => ret.val = _component_map[i][2]
            /\ (call.arg = <<"A", "m", "a", "z", "o", "n", " ", "S", "3", " ",
                             "B", "u", "c", "k", "e", "t">>
                /\ constructed_with = <<>>) =>
                  /\ ret.val = "storage"
                  /\ \E i \in hits :
                        /\ \A j \in hits : i <= j
                        /\ _component_map[i][1] = <<"S", "3">>

\* no exact match, and two matching keys of different categories: the
\* earlier one decides
C8_Witness ==
    /\ call.op = "classify"
    /\ ~Blank(call.arg)
    /\ ExactAt(_component_map, call.arg) = {}
    /\ \E i, j \in MatchesAt(_component_map, call.arg) :
          /\ i < j
          /\ _component_map[i][2] # _component_map[j][2]
          /\ ret.val = _component_map[i][2]

\* C9: for a non-blank input that no key matches, exactly or partially,
\* classify returns other and analyze returns an analysis (not None) of
\* category "other" whose risks are the threats of the other profile.
C9_UnknownIsOther ==
    (call.op \in {"classify", "analyze"} /\ ~Blank(call.arg)
        /\ ExactAt(_component_map, call.arg) = {}
        /\ MatchesAt(_component_map, call.arg) = {}) =>
        /\ call.op = "classify" => ret.val = "other"
        /\ call.op = "analyze" =>
              /\ ret.kind = "analysis"
              /\ ret.val.component = call.arg
              /\ ret.val.category = "other"
              /\ ret.val.risks = OTHER_THREATS

\* analyze("UnknownWidget123") returns an analysis of category other
C9_Witness ==
    /\ call.op = "analyze"
    /\ call.arg = <<"U", "n", "k", "n", "o", "w", "n", "W", "i", "d", "g", "e",
                    "t", "1", "2", "3">>
    /\ MatchesAt(_component_map, call.arg) = {}
    /\ ret.kind = "analysis"
    /\ ret.val.category = "other"

\* C10: a classifier constructed with a supplemental mapping returns the
\* supplied category for every non-blank key of that mapping, whether the key
\* is new or a seeded key with another category.
C10_CustomMappingWins ==
    (call.op = "classify" /\ ~Blank(call.arg)) =>
        \A i \in 1..Len(constructed_with) :
            constructed_with[i][1] = call.arg => ret.val = constructed_with[i][2]

\* the input is a custom key that overrides a seeded key of another category
C10_Witness ==
    /\ call.op = "classify"
    /\ ~Blank(call.arg)
    /\ \E i \in 1..Len(constructed_with) :
          /\ constructed_with[i][1] = call.arg
          /\ ret.val = constructed_with[i][2]
          /\ dict_contains(_COMPONENT_MAP, call.arg)
          /\ dict_get(_COMPONENT_MAP, call.arg) # ret.val

\* C11: for a non-blank name, analyze returns an analysis whose component is
\* the name unchanged, whose category is the value of classify(name), and whose
\* element_type, stride_summary, description and ordered risks are those of
\* that category's profile (for "EC2": compute, 3 risks, max_severity CRITICAL).
C11_AnalyzeFromProfile ==
    (call.op = "analyze" /\ ~Blank(call.arg)) =>
        /\ ret.kind = "analysis"
        /\ ret.val.component = call.arg
        /\ ret.val.category = classify(_component_map, call.arg)
        /\ ret.val.category \in DOMAIN _CATEGORY_PROFILES
        /\ LET profile == _CATEGORY_PROFILES[ret.val.category]
           IN  /\ ret.val.element_type = profile.element_type
               /\ ret.val.stride_summary = profile.stride_summary
               /\ ret.val.description = profile.description
               /\ ret.val.risks = KNOWLEDGE_BASE[profile.threats]
        /\ (call.arg = <<"E", "C", "2">> /\ constructed_with = <<>>) =>
              /\ ret.val.category = "compute"
              /\ risk_count(ret.val) = 3
              /\ max_severity(ret.val) = "CRITICAL"

\* analyze of a name with whitespace around it and capitals in it
C11_Witness ==
    /\ call.op = "analyze"
    /\ call.arg = <<" ", "S", "3">>
    /\ ret.kind = "analysis"
    /\ ret.val.component = call.arg
    /\ ret.val.category = "storage"
    /\ Len(ret.val.risks) = 3

\* the names of a list that are not blank, in their order
NonBlank(s) == ~Blank(s)
NonBlankNames(components) == SelectSeq(components, NonBlank)

\* C12: analyze_architecture splits the input in order: components holds the
\* analyses of the non-blank names in input order, failed holds the blank names
\* in input order with their original text, and a name occurring k times gives
\* k entries.
C12_SplitInOrder ==
    call.op = "analyze_architecture" =>
        LET ok == NonBlankNames(call.arg)
        IN  /\ ret.val.failed = SelectSeq(call.arg, Blank)
            /\ Len(ret.val.components) = Len(ok)
            /\ \A i \in 1..Len(ok) :
                  ret.val.components[i] = to_dict(analyze(_component_map, ok[i]).val)
            /\ \A name \in {call.arg[i] : i \in 1..Len(call.arg)} :
                  Cardinality({i \in 1..Len(call.arg) : call.arg[i] = name})
                      = IF Blank(name)
                        THEN Cardinality({i \in 1..Len(ret.val.failed) :
                                            ret.val.failed[i] = name})
                        ELSE Cardinality({i \in 1..Len(ret.val.components) :
                                            ret.val.components[i].component = name})

\* a report for a list that repeats a name around a whitespace-only name
C12_Witness ==
    /\ call.op = "analyze_architecture"
    /\ Len(call.arg) = 3
    /\ call.arg[1] = call.arg[3]
    /\ ~Blank(call.arg[1])
    /\ call.arg[2] = <<" ">>
    /\ Len(ret.val.components) = 2
    /\ ret.val.failed = << <<" ">> >>

\* C13: the risk score comes from the successful analyses only: the report of
\* a list and the report of the same list without its blank names agree on
\* risk_score, risk_level, analyzed and components, and differ only in
\* total_components and failed.
C13_BlankNamesDoNotScore ==
    call.op = "analyze_architecture" =>
        LET without == analyze_architecture(_component_map, NonBlankNames(call.arg))
        IN  /\ ret.val.risk_score = without.risk_score
            /\ ret.val.risk_level = without.risk_level
            /\ ret.val.analyzed = without.analyzed
            /\ ret.val.components = without.components
            /\ without.failed = <<>>
            /\ ret.val.total_components
                  = without.total_components + Len(ret.val.failed)

\* a report with a positive score for a list that holds blank names too
C13_Witness ==
    /\ call.op = "analyze_architecture"
    /\ \E i \in 1..Len(call.arg) : Blank(call.arg[i])
    /\ \E i \in 1..Len(call.arg) : ~Blank(call.arg[i])
    /\ ret.val.risk_score > 0
    /\ ret.val.total_components > ret.val.analyzed

\* C14: the risk_score of every report lies in 0.0..100.0 (0..1000 tenths).
C14_ScoreInRange ==
    call.op = "analyze_architecture" =>
        /\ ret.val.risk_score >= 0
        /\ ret.val.risk_score <= 1000

\* a report in the upper quarter of the range
C14_Witness ==
    /\ call.op = "analyze_architecture"
    /\ ret.val.analyzed > 0
    /\ ret.val.risk_score >= 750

\* C15: analyze_architecture([]) returns total_components 0, analyzed 0,
\* failed [], risk_score 0.0, risk_level "LOW" and components [], on every
\* call, whatever calls came before.
C15_EmptyArchitecture ==
    (call.op = "analyze_architecture" /\ call.arg = <<>>) =>
        ret.val = [total_components |-> 0, analyzed |-> 0, failed |-> <<>>,
                   risk_score |-> 0, risk_level |-> "LOW", components |-> <<>>]

\* the empty list analysed after a classifier with custom mappings was built
C15_Witness ==
    /\ call.op = "analyze_architecture"
    /\ call.arg = <<>>
    /\ constructed_with # <<>>
    /\ ret.kind = "report"
    /\ ret.val.total_components = 0

\* C17: no operation mutates shared data after construction: after any
\* sequence of constructions, classify, analyze and analyze_architecture calls,
\* the module's seeded name table, the profile table and the threat lists are
\* what they were at import, and the classifier's own table is what its
\* construction made it.
C17_SharedDataUnchanged ==
    /\ module_component_map = _COMPONENT_MAP
    /\ category_profiles = _CATEGORY_PROFILES
    /\ knowledge_base = KNOWLEDGE_BASE
    /\ LET made == init_loop(_COMPONENT_MAP, constructed_with, 1)
       IN  /\ ~made.raised
           /\ _component_map = made.map

\* an architecture analysed by an engine built with custom mappings
C17_Witness ==
    /\ call.op = "analyze_architecture"
    /\ Len(call.arg) > 0
    /\ constructed_with # <<>>
    /\ _component_map # _COMPONENT_MAP
    /\ module_component_map = _COMPONENT_MAP

\* C19: each of the 15 categories has one entry in the profile table, the
\* entry's threat list is not empty, and every threat of it has a severity
\* among CRITICAL, HIGH, MEDIUM, LOW.
C19_ProfilesComplete ==
    /\ Cardinality(ComponentCategory) = 15
    /\ DOMAIN category_profiles = ComponentCategory
    /\ \A category \in ComponentCategory :
          LET threats == knowledge_base[category_profiles[category].threats]
          IN  /\ Len(threats) > 0
              /\ \A i \in 1..Len(threats) :
                    threats[i].severity \in {"CRITICAL", "HIGH", "MEDIUM", "LOW"}

\* an analysis that took the threats of the profile of the category other
C19_Witness ==
    /\ call.op = "analyze"
    /\ ret.kind = "analysis"
    /\ ret.val.category = "other"
    /\ ret.val.risks = knowledge_base[category_profiles["other"].threats]
    /\ Len(ret.val.risks) = 1

\* C16: analyze_architecture is deterministic: a call on the same engine with
\* the input of an earlier call returns the report of that call, whatever
\* analyze and analyze_architecture calls happened before or between them.
C16_SameInputSameReport ==
    (/\ call.op = "analyze_architecture"
     /\ seen.kind = "report"
     /\ call.arg = seen.input) => ret.val = seen.report

\* the remembered list analysed again after other calls, with a name in it
\* that no seeded key matches
C16_Witness ==
    /\ call.op = "analyze_architecture"
    /\ seen.kind = "report"
    /\ seen.between
    /\ call.arg = seen.input
    /\ \E i \in 1..Len(call.arg) : call.arg[i] = <<"s", "_">>
    /\ ret.kind = "report"
    /\ ret.val = seen.report

\* C18: when analyze and analyze_architecture calls run concurrently on one
\* engine, in any interleaving of their steps, each call returns the result it
\* returns when it runs alone, and a call in its loop holds exactly what its
\* own earlier iterations produced.
C18_ConcurrentCallsIndependent ==
    \A t \in Threads :
        /\ (threads[t].pc = "done" /\ threads[t].op = "analyze") =>
              threads[t].result = analyze(_component_map, threads[t].input)
        /\ (threads[t].pc = "done" /\ threads[t].op = "analyze_architecture") =>
              /\ threads[t].result.kind = "report"
              /\ threads[t].result.val
                    = analyze_architecture(_component_map, threads[t].input)
        /\ threads[t].pc = "loop" =>
              LET alone == architecture_loop(_component_map,
                               SubSeq(threads[t].input, 1, threads[t].i - 1),
                               1, <<>>, <<>>)
              IN  /\ threads[t].analyses = alone.analyses
                  /\ threads[t].failed = alone.failed

\* one call has returned its report while another call, on another list, is
\* in the middle of its loop
C18_Witness ==
    /\ threads["t1"].pc = "done"
    /\ threads["t1"].op = "analyze_architecture"
    /\ Len(threads["t1"].input) = 2
    /\ threads["t1"].result.val.analyzed = 1
    /\ threads["t2"].pc = "loop"
    /\ threads["t2"].i = 2
    /\ threads["t2"].input # threads["t1"].input
    /\ Len(threads["t2"].analyses) = 1

\* the analysis (or report entry) e is the generic one for name and category
IsGeneric(e, name, category) ==
    /\ e.component = name
    /\ e.category = category
    /\ e.element_type = "External Entity"
    /\ e.stride_summary = "S"
    /\ Len(e.risks) = 1
    /\ e.risks[1].severity = "MEDIUM"

\* C20: when the category of a name has no entry in the profile table, analyze
\* returns an analysis for that name and category with element_type
\* "External Entity", stride_summary "S" and exactly one risk, of type Spoofing
\* and severity MEDIUM, and analyze_architecture counts the name as analyzed.
C20_MissingProfileIsGeneric ==
    /\ (/\ call.op = "analyze"
        /\ ~Blank(call.arg)
        /\ classify(_component_map, call.arg) \notin DOMAIN category_profiles) =>
           /\ ret.kind = "analysis"
           /\ IsGeneric(ret.val, call.arg, classify(_component_map, call.arg))
           /\ ret.val.risks[1].threat_type = "Spoofing"
    /\ call.op = "analyze_architecture" =>
           LET ok == NonBlankNames(call.arg)
           IN  /\ ret.val.analyzed = Len(ok)
               /\ Len(ret.val.components) = Len(ok)
               /\ ret.val.failed = SelectSeq(call.arg, Blank)
               /\ \A i \in 1..Len(ok) :
                     LET category == classify(_component_map, ok[i])
                     IN  category \notin DOMAIN category_profiles =>
                            /\ IsGeneric(ret.val.components[i], ok[i], category)
                            /\ ret.val.components[i].risks[1].type = "Spoofing"

\* a report over a table without the compute profile: EC2 gets the generic
\* analysis, S3 its profile's, and both are counted
C20_Witness ==
    /\ call.op = "analyze_architecture"
    /\ call.arg = << <<"E", "C", "2">>, <<"S", "3">> >>
    /\ "compute" \notin DOMAIN category_profiles
    /\ "storage" \in DOMAIN category_profiles
    /\ ret.val.analyzed = 2
    /\ ret.val.failed = <<>>
    /\ ret.val.components[1].category = "compute"
    /\ ret.val.components[1].element_type = "External Entity"
    /\ Len(ret.val.components[1].risks) = 1
    /\ Len(ret.val.components[2].risks) = 3

\* the rank of a severity: CRITICAL > HIGH > MEDIUM > LOW, anything else below
RankOf(severity) ==
    CASE severity = "CRITICAL" -> 4
      [] severity = "HIGH" -> 3
      [] severity = "MEDIUM" -> 2
      [] severity = "LOW" -> 1
      [] OTHER -> 0

\* C21: risk_count is the length of risks; max_severity is the highest-ranked
\* severity present among the risks under CRITICAL > HIGH > MEDIUM > LOW, and
\* "LOW" when risks is empty.
C21_CountAndMaxSeverity ==
    /\ call.op = "risk_count" => ret.val = Len(call.arg.risks)
    /\ call.op = "max_severity" =>
          IF call.arg.risks = <<>> THEN ret.val = "LOW"
          ELSE /\ \E i \in 1..Len(call.arg.risks) : call.arg.risks[i].severity = ret.val
               /\ \A i \in 1..Len(call.arg.risks) :
                     RankOf(call.arg.risks[i].severity) <= RankOf(ret.val)

\* max_severity of an analysis whose highest severity is not on its first risk
C21_Witness ==
    /\ call.op = "max_severity"
    /\ Len(call.arg.risks) = 2
    /\ call.arg.risks[1].severity = "LOW"
    /\ call.arg.risks[2].severity = "CRITICAL"
    /\ ret.val = "CRITICAL"

\* d is the dictionary of the analysis a: the six keys, and one entry per risk
\* in the same order under the keys type, threat, detail, mitigation, severity
IsDictOf(d, a) ==
    /\ DOMAIN d = {"component", "category", "element_type", "stride_summary",
                   "description", "risks"}
    /\ d.component = a.component
    /\ d.category = a.category
    /\ d.element_type = a.element_type
    /\ d.stride_summary = a.stride_summary
    /\ d.description = a.description
    /\ DOMAIN d.risks = 1..Len(a.risks)
    /\ \A j \in 1..Len(a.risks) :
          /\ DOMAIN d.risks[j] = {"type", "threat", "detail", "mitigation", "severity"}
          /\ d.risks[j].type = a.risks[j].threat_type
          /\ d.risks[j].threat = a.risks[j].threat_label
          /\ d.risks[j].detail = a.risks[j].detail
          /\ d.risks[j].mitigation = a.risks[j].mitigation
          /\ d.risks[j].severity = a.risks[j].severity

\* C22: the report has exactly the keys total_components, analyzed, failed,
\* risk_score, risk_level, components; each element of components has exactly
\* the keys component, category, element_type, stride_summary, description,
\* risks; risks has one entry per risk of the analysis, in order, with exactly
\* the keys type, threat, detail, mitigation, severity and that risk's values.
C22_StableFieldNames ==
    /\ call.op = "to_dict" => IsDictOf(ret.val, call.arg)
    /\ call.op = "analyze_architecture" =>
          /\ DOMAIN ret.val = {"total_components", "analyzed", "failed",
                               "risk_score", "risk_level", "components"}
          /\ LET ok == NonBlankNames(call.arg)
             IN  /\ DOMAIN ret.val.components = 1..Len(ok)
                 /\ \A i \in 1..Len(ok) :
                       IsDictOf(ret.val.components[i],
                                analyze(_component_map, ok[i]).val)

\* a report of two components of different categories, three risks each
C22_Witness ==
    /\ call.op = "analyze_architecture"
    /\ call.arg = << <<"E", "C", "2">>, <<"S", "3">> >>
    /\ Len(ret.val.components) = 2
    /\ Len(ret.val.components[1].risks) = 3
    /\ ret.val.components[1].risks[1].type = COMPUTE_THREATS[1].threat_type
    /\ ret.val.components[2].risks[3].threat = STORAGE_THREATS[3].threat_label

\* C23: the legacy analyze_component returns None exactly when the name is a
\* key of neither CATEGORY_ANALYZERS nor COMPONENT_TO_CATEGORY, and never
\* raises; for every other name it returns a dictionary whose component is the
\* name and whose risks are not empty.
C23_LegacyNoneIffUnknown ==
    call.op = "analyze_component" =>
        LET known == call.arg \in DOMAIN CATEGORY_ANALYZERS \cup DOMAIN COMPONENT_TO_CATEGORY
        IN  /\ ret.kind \in {"None", "analysis"}
            /\ (ret.kind = "None") <=> ~known
            /\ known => /\ ret.val.component = call.arg
                        /\ "risks" \in DOMAIN ret.val
                        /\ Len(ret.val.risks) > 0

\* a component name that reaches its analyzer through COMPONENT_TO_CATEGORY
C23_Witness ==
    /\ call.op = "analyze_component"
    /\ call.arg = "WAF"
    /\ call.arg \notin DOMAIN CATEGORY_ANALYZERS
    /\ ret.kind = "analysis"
    /\ ret.val.component = "WAF"
    /\ ret.val.category = "Security Control"

\* C24: component_names contains each distinct class_name of the detections
\* exactly once and nothing else, and count is the number of detections,
\* repeated class names included; an empty result has count 0 and
\* component_names [].
C24_DistinctNamesAndCount ==
    /\ call.op = "component_names" =>
          LET detections == call.arg.detections
              classes == {detections[i].class_name : i \in 1..Len(detections)}
          IN  /\ \A i \in 1..Len(ret.val) : ret.val[i] \in classes
              /\ \A class_name \in classes :
                    Cardinality({i \in 1..Len(ret.val) : ret.val[i] = class_name}) = 1
              /\ detections = <<>> => ret.val = <<>>
    /\ call.op = "count" =>
          /\ ret.val = Len(call.arg.detections)
          /\ call.arg.detections = <<>> => ret.val = 0

\* the names of a result with two detections of one class and one of another
C24_Witness ==
    /\ call.op = "component_names"
    /\ Len(call.arg.detections) = 3
    /\ call.arg.detections[1].class_name = call.arg.detections[2].class_name
    /\ call.arg.detections[3].class_name # call.arg.detections[1].class_name
    /\ Len(ret.val) = 2

\* a is a prefix of b, and what follows it in b
IsPrefix(a, b) == Len(a) <= Len(b) /\ SubSeq(b, 1, Len(a)) = a
Rest(a, b) == SubSeq(b, Len(a) + 1, Len(b))

\* C25 as stated: the risk_score of analyze_architecture(A followed by B) is
\* never lower than the risk_score of analyze_architecture(A).
C25_MonotonicAsStated ==
    (/\ call.op = "analyze_architecture"
     /\ seen.kind = "report"
     /\ IsPrefix(seen.input, call.arg)) =>
        ret.val.risk_score >= seen.report.risk_score

\* C25 as amended: the risk_score of analyze_architecture(A followed by B) is
\* never lower than the smaller of the risk_scores of analyze_architecture(A)
\* and analyze_architecture(B).
C25_NotBelowTheSmaller ==
    (/\ call.op = "analyze_architecture"
     /\ seen.kind = "report"
     /\ IsPrefix(seen.input, call.arg)) =>
        LET report_B == analyze_architecture(_component_map, Rest(seen.input, call.arg))
        IN  ret.val.risk_score >= min(seen.report.risk_score, report_B.risk_score)

\* a list A followed by one more name whose report scores lower than that of A
C25_Witness ==
    /\ call.op = "analyze_architecture"
    /\ seen.kind = "report"
    /\ IsPrefix(seen.input, call.arg)
    /\ Len(seen.input) = 1
    /\ Len(call.arg) = 2
    /\ ret.val.analyzed = 2
    /\ ret.val.risk_score < seen.report.risk_score
    /\ ret.val.risk_score > 0

\* C26: every category profile has at most 3 threats, so the weighted total of
\* a report never exceeds 30 per analysed component and the clamp
\* min(..., 100.0) never changes the computed score.
C26_CeilingHolds ==
    /\ \A category \in DOMAIN category_profiles :
          Len(knowledge_base[category_profiles[category].threats]) <= 3
    /\ call.op = "analyze_architecture" =>
          LET n == ret.val.analyzed
              total == WeightedTotal(ret.val.components)
          IN  /\ total <= n * 30
              /\ n > 0 => IsRounded(ret.val.risk_score, total, n * 30)

\* a report of two components with three threats each
C26_Witness ==
    /\ call.op = "analyze_architecture"
    /\ ret.val.analyzed = 2
    /\ \A i \in 1..2 : Len(ret.val.components[i].risks) = 3
    /\ WeightedTotal(ret.val.components) = 45
    /\ ret.val.risk_score = 750

\* C27: in a classifier built with custom mappings, a custom key that is not a
\* seeded key comes after every seeded key and a custom key that overrides a
\* seeded key keeps that key's position; so an input with no exact match that
\* partially matches a seeded key gets the category at the first such seeded
\* key, whatever new custom keys match it too.
C27_SeededKeysScannedFirst ==
    LET seeded == Len(_COMPONENT_MAP)
    IN  /\ Len(_component_map) >= seeded
        /\ \A i \in 1..seeded : _component_map[i][1] = _COMPONENT_MAP[i][1]
        /\ \A i \in (seeded + 1)..Len(_component_map) :
              /\ ~dict_contains(_COMPONENT_MAP, _component_map[i][1])
              /\ dict_contains(constructed_with, _component_map[i][1])
        /\ (/\ call.op = "classify"
            /\ ~Blank(call.arg)
            /\ ExactAt(_component_map, call.arg) = {}) =>
              LET hits == {i \in 1..seeded : KeyMatches(_COMPONENT_MAP[i][1], call.arg)}
              IN  \A i \in hits :
                      (\A j \in hits : i <= j) =>
                          /\ ret.val = _component_map[i][2]
                          /\ ~dict_contains(constructed_with, _COMPONENT_MAP[i][1]) =>
                                ret.val = _COMPONENT_MAP[i][2]

\* an input without exact match that matches a seeded key and a new custom key
\* of another category: the seeded key decides
C27_Witness ==
    /\ call.op = "classify"
    /\ ~Blank(call.arg)
    /\ ExactAt(_component_map, call.arg) = {}
    /\ \E i \in 1..Len(_COMPONENT_MAP), j \in (Len(_COMPONENT_MAP) + 1)..Len(_component_map) :
          /\ KeyMatches(_component_map[i][1], call.arg)
          /\ KeyMatches(_component_map[j][1], call.arg)
          /\ _component_map[j][1] # <<>>
          /\ _component_map[j][2] # ret.val
          /\ ret.val = _COMPONENT_MAP[i][2]

\* C28: every analysis returned by analyze owns a fresh risks list: editing
\* the risks of one returned analysis changes neither the threat lists of the
\* knowledge base, nor the profile table, nor the risks of any other analysis
\* returned before or after it, of the same category or not.
C28_FreshRisks ==
    /\ knowledge_base = KNOWLEDGE_BASE
    /\ category_profiles = _CATEGORY_PROFILES
    /\ \A k \in 1..Len(held.analyses) :
          /\ held.analyses[k].risks.kind = "own"
          /\ \A l \in 1..Len(held.analyses) :
                k # l => held.analyses[k].risks # held.analyses[l].risks
          /\ ~held.analyses[k].edited =>
                deref(held.lists, held.analyses[k].risks)
                    = KNOWLEDGE_BASE[_CATEGORY_PROFILES[held.analyses[k].category].threats]

\* two analyses of one category: the risks of the first were edited, those of
\* the second are the threats of the category
C28_Witness ==
    /\ Len(held.analyses) = 2
    /\ held.analyses[1].category = held.analyses[2].category
    /\ held.analyses[1].edited
    /\ ~held.analyses[2].edited
    /\ deref(held.lists, held.analyses[1].risks) # deref(held.lists, held.analyses[2].risks)
    /\ deref(held.lists, held.analyses[2].risks) = COMPUTE_THREATS

\* C29: constructing a CategoryClassifier with a custom mapping that has a
\* value outside the 15 category strings fails with an error and yields no
\* classifier; every entry of the table of a constructed classifier maps to a
\* member of the enumeration.
C29_InvalidCategoryRejected ==
    /\ call.op = "construct" =>
          LET invalid == \E i \in 1..Len(call.arg) : call.arg[i][2] \notin ComponentCategory
          IN  /\ invalid <=> (ret.kind = "raise" /\ ret.val = "ValueError")
              /\ ~invalid <=> (ret.kind = "classifier" /\ constructed_with = call.arg)
              /\ ret.kind = "classifier" => ret.val = _component_map
    /\ \A i \in 1..Len(constructed_with) : constructed_with[i][2] \in ComponentCategory
    /\ \A i \in 1..Len(_component_map) : _component_map[i][2] \in ComponentCategory

\* a construction that fails on its second item, after a valid first one
C29_Witness ==
    /\ call.op = "construct"
    /\ ret.kind = "raise"
    /\ Len(call.arg) = 2
    /\ call.arg[1][2] \in ComponentCategory
    /\ call.arg[2][2] \notin ComponentCategory
    /\ constructed_with # call.arg
    /\ ~dict_contains(_component_map, call.arg[2][1])

\* the level the legacy thresholds give a score in hundredths
LegacyLevelOf(hundredths) ==
    CASE hundredths < 30 -> "LOW"
      [] hundredths >= 30 /\ hundredths < 60 -> "MEDIUM"
      [] hundredths >= 60 /\ hundredths < 80 -> "HIGH"
      [] hundredths >= 80 -> "CRITICAL"

\* C30: in the legacy analyze_architecture the reported risk_score lies in
\* 0..1 and the reported risk_level is the level the thresholds 0.3, 0.6, 0.8
\* give the reported risk_score, the value rounded to two decimals.
C30_LegacyLevelOfReportedScore ==
    call.op = "legacy_analyze_architecture" =>
        /\ ret.val.risk_score >= 0
        /\ ret.val.risk_score <= 100
        /\ ret.val.risk_level = LegacyLevelOf(ret.val.risk_score)

====
